---- MODULE Spec2Model ----
(***************************************************************************)
(* Worktree lifecycle manager of tools/wt-worktree (wt/worktree.py,        *)
(* wt/git.py, wt/config.py).  Names, branches and paths are strings, as in *)
(* the source; the repository and the file system are the state the git    *)
(* gateway reads and writes.                                               *)
(***************************************************************************)
EXTENDS Naturals, Sequences, FiniteSets, TLC

VARIABLES
    worktrees,    \* git's worktree records, in `git worktree list` order
    branches,     \* local branches (refs/heads/*)
    merged,       \* local branches that are ancestors of origin/<default branch>
    ahead,        \* local branches with commits their upstream does not have
    upstreamCfg,  \* branch.<b>.merge: function from configured branches to a remote branch
    remoteRefs,   \* remote-tracking branches (refs/remotes/origin/*)
    disk,         \* paths that exist on the file system
    stash,        \* the repository's stash entries (paths that pushed them), newest first
    cwd,          \* the process working directory
    cfg,          \* Config._config
    files,        \* the global and the local configuration file, each a list of lines
    last,         \* the last operation: its arguments and result
    sync,         \* the running sync_worktrees call, or the idle record
    userSteps     \* how many bounded steps (edits, commits, config changes) were taken

vars == <<worktrees, branches, merged, ahead, upstreamCfg, remoteRefs, disk,
          stash, cwd, cfg, files, last, sync, userSteps>>

\* Python's None
None == "<None>"

\* no configuration file has been written
NoFiles == [global |-> <<>>, local |-> <<>>]

-----------------------------------------------------------------------------
\* Bounds of the model

\* linked worktrees next to the main one
MaxLinked == 2
\* targets of one sync_worktrees call
MaxTargets == 2
\* edits and commits the user makes by hand
MaxUserSteps == 1
\* linked worktrees when their directories may nest
MaxNested == 4

\* Config.set calls and hand edits of .wt.toml in one run
MaxConfigSteps == 2

\* names the user passes to the commands
Names == {"x", "main", "feature/x"}

\* the repository directory's name and the main worktree's path
RepoName == "repo"
RepoRoot == "../repo"
Elsewhere == "/tmp"

-----------------------------------------------------------------------------
\* String helpers (str.startswith, str.replace, Path parents)

StartsWith(s, p) == Len(s) >= Len(p) /\ SubSeq(s, 1, Len(p)) = p

RECURSIVE Replace(_, _, _)
Replace(s, old, new) ==
    IF Len(s) < Len(old) THEN s
    ELSE IF SubSeq(s, 1, Len(old)) = old
         THEN new \o Replace(SubSeq(s, Len(old) + 1, Len(s)), old, new)
         ELSE SubSeq(s, 1, 1) \o Replace(SubSeq(s, 2, Len(s)), old, new)

\* p and every directory above it, up to the common parent ".."
Ancestors(p) ==
    {SubSeq(p, 1, i) : i \in {j \in 4..Len(p) : j = Len(p) \/ SubSeq(p, j + 1, j + 1) = "/"}}

\* Path.is_relative_to / equality
IsUnder(p, dir) == p = dir \/ StartsWith(p, dir \o "/")

-----------------------------------------------------------------------------
\* Configuration (wt/config.py)

DEFAULT_CONFIG ==
    [prefix |-> "feature", path_pattern |-> "../{repo}-{name}",
     default_base |-> "origin/main", default_worktree |-> None]

ConfigGet(c, key) == c[key]

\* Python truthiness of an optional string
Truthy(s) == s # None /\ s # ""

get_branch_name(c, name) ==
    IF Truthy(ConfigGet(c, "prefix")) THEN ConfigGet(c, "prefix") \o "/" \o name ELSE name

\* extract_worktree_name cutting the prefix but not the slash after it
extract_worktree_name_KeepsSlash(c, branch) ==
    LET prefix == ConfigGet(c, "prefix") IN
    IF Truthy(prefix) /\ StartsWith(branch, prefix \o "/")
    THEN SubSeq(branch, Len(prefix) + 1, Len(branch))
    ELSE branch

extract_worktree_name(c, branch) ==
    LET prefix == ConfigGet(c, "prefix") IN
    IF Truthy(prefix) /\ StartsWith(branch, prefix \o "/")
    THEN SubSeq(branch, Len(prefix) + 2, Len(branch))
    ELSE branch

resolve_path_pattern(c, name, branch) ==
    Replace(Replace(Replace(ConfigGet(c, "path_pattern"), "{repo}", RepoName),
                    "{name}", name), "{branch}", branch)

-----------------------------------------------------------------------------
\* Config: set, get_all, save_local, save_global, _write_toml, _read_toml,
\* _merge_config, _load_config

\* the keys of DEFAULT_CONFIG, in the dictionary's order
SchemaKeys == <<"prefix", "path_pattern", "default_base", "default_worktree">>

\* Config.set: the new dictionary, or the old one and the error
\* Config.set storing the value under any key
Config_set_AnyKey(c, key, value) ==
    [cfg |-> [k \in DOMAIN c \cup {key} |-> IF k = key THEN value ELSE c[k]],
     err |-> None]

Config_set(c, key, value) ==
    IF key \notin DOMAIN DEFAULT_CONFIG
    THEN [cfg |-> c, err |-> "UnknownKey"]
    ELSE [cfg |-> [k \in DOMAIN c |-> IF k = key THEN value ELSE c[k]], err |-> None]

get_all(c) == c

\* _write_toml for string values: one line, key = "value", the value as it is
write_toml_line(key, value) == key \o " = \"" \o value \o "\""

\* save_local and save_global keep the entries that are not None and whose key
\* is in DEFAULT_CONFIG, then _write_toml writes them in dictionary order
RECURSIVE write_toml(_, _)
write_toml(c, keys) ==
    IF keys = <<>> THEN <<>>
    ELSE LET k == Head(keys) IN
         (IF k \in DOMAIN c /\ c[k] # None THEN <<write_toml_line(k, c[k])>> ELSE <<>>)
         \o write_toml(c, Tail(keys))

save(c) == write_toml(c, SchemaKeys)

\* the first position of sub in s, or 0
IndexOf(s, sub) ==
    LET at == {i \in 1..(Len(s) + 1 - Len(sub)) : SubSeq(s, i, i + Len(sub) - 1) = sub}
    IN IF at = {} THEN 0 ELSE CHOOSE i \in at : \A j \in at : i <= j

NoValue == [ok |-> FALSE, key |-> "", value |-> ""]

\* the character a TOML escape sequence stands for (\b and \u are left out: no
\* input of the model holds them)
Unescape(e) ==
    CASE e = "t" -> "\t" [] e = "n" -> "\n" [] e = "r" -> "\r" [] e = "f" -> "\f"
      [] e = "\"" -> "\"" [] e = "\\" -> "\\"

\* tomllib on a basic string: s from position i on, after the opening quote;
\* the closing quote must end the line
RECURSIVE ParseBasic(_, _, _, _)
ParseBasic(key, s, i, acc) ==
    IF i > Len(s) THEN NoValue
    ELSE LET ch == SubSeq(s, i, i) IN
         IF ch = "\"" THEN (IF i = Len(s) THEN [ok |-> TRUE, key |-> key, value |-> acc]
                                          ELSE NoValue)
         ELSE IF ch = "\\"
              THEN IF i < Len(s) /\ SubSeq(s, i + 1, i + 1) \in {"t", "n", "r", "f", "\"", "\\"}
                   THEN ParseBasic(key, s, i + 2, acc \o Unescape(SubSeq(s, i + 1, i + 1)))
                   ELSE NoValue
         ELSE IF ch \in {"\n", "\r"} THEN NoValue
         ELSE ParseBasic(key, s, i + 1, acc \o ch)

\* one line key = "value" of a TOML document
ParseLine(line) ==
    LET eq == IndexOf(line, " = ") IN
    IF eq < 2 \/ eq + 3 > Len(line) \/ SubSeq(line, eq + 3, eq + 3) # "\"" THEN NoValue
    ELSE ParseBasic(SubSeq(line, 1, eq - 1), SubSeq(line, eq + 3, Len(line)), 2, "")

\* _read_toml: the document's table, or ConfigError
read_toml(lines) ==
    LET parsed == [i \in 1..Len(lines) |-> ParseLine(lines[i])]
        keys == {parsed[i].key : i \in 1..Len(lines)}
    IN IF \E i \in 1..Len(lines) : ~parsed[i].ok
       THEN [ok |-> FALSE, table |-> <<>>]
       ELSE [ok |-> TRUE,
             table |-> [k \in keys |->
                          parsed[CHOOSE i \in 1..Len(lines) : parsed[i].key = k].value]]

\* _merge_config: dict.update
merge_config(c, table) ==
    [k \in DOMAIN c \cup DOMAIN table |-> IF k \in DOMAIN table THEN table[k] ELSE c[k]]

\* Config(repo_root): the defaults, then the global file, then the local one
load_config(f) ==
    LET g == read_toml(f.global)
        l == read_toml(f.local)
    IN IF ~g.ok \/ ~l.ok THEN [cfg |-> DEFAULT_CONFIG, err |-> "ConfigError"]
       ELSE [cfg |-> merge_config(merge_config(DEFAULT_CONFIG, g.table), l.table),
             err |-> None]

-----------------------------------------------------------------------------
\* The repository as the git gateway sees it (wt/git.py)

World ==
    [worktrees |-> worktrees, branches |-> branches, merged |-> merged,
     ahead |-> ahead, upstreamCfg |-> upstreamCfg, remoteRefs |-> remoteRefs,
     disk |-> disk, stash |-> stash]

HeadCommit == "a1b2c3d4e5f6"

branch_exists(w, branch) == branch \in w.branches

remote_branch_exists(w, branch, remote) == remote = "origin" /\ branch \in w.remoteRefs

\* git rev-parse --abbrev-ref <branch>@{upstream}: resolves only when the branch
\* has a merge target and its remote-tracking ref exists
get_upstream_branch(w, branch) ==
    IF branch \in DOMAIN w.upstreamCfg /\ w.upstreamCfg[branch] \in w.remoteRefs
    THEN "origin/" \o w.upstreamCfg[branch]
    ELSE None

get_default_branch(w) ==
    IF "main" \in w.remoteRefs THEN "main"
    ELSE IF branch_exists(w, "main") THEN "main"
    ELSE IF branch_exists(w, "master") THEN "master"
    ELSE "main"

is_ancestor(w, branch, descendant) ==
    descendant = "origin/" \o get_default_branch(w)
    /\ "main" \in w.remoteRefs /\ branch \in w.merged

\* (exists, path) of the worktree checked out on `name`
worktree_exists(w, name) ==
    LET hits == {i \in 1..Len(w.worktrees) : w.worktrees[i].branch = name} IN
    IF hits = {} THEN [exists |-> FALSE, path |-> None]
    ELSE [exists |-> TRUE,
          path |-> w.worktrees[CHOOSE i \in hits : \A j \in hits : i <= j].path]

PathExists(w, p) == p \in w.disk

has_uncommitted_changes(w, p) ==
    \E i \in 1..Len(w.worktrees) : w.worktrees[i].path = p /\ w.worktrees[i].dirty

\* git status --porcelain: one line for the file the user edited
get_status_short(w, p) == IF has_uncommitted_changes(w, p) THEN " M README.md\n" ELSE ""

\* a ref git can resolve to a commit
ResolvesRef(w, ref) ==
    \/ ref = "HEAD"
    \/ ref \in w.branches
    \/ StartsWith(ref, "origin/") /\ SubSeq(ref, 8, Len(ref)) \in w.remoteRefs

\* refs/heads/a and refs/heads/a/b cannot both exist
RefConflict(w, branch) ==
    \E b \in w.branches : StartsWith(b, branch \o "/") \/ StartsWith(branch, b \o "/")

\* whether the commit `ref` names is an ancestor of origin/<default branch>
RefMerged(w, ref) ==
    \/ ref = "origin/" \o get_default_branch(w)
    \/ ref = "HEAD" /\ (w.worktrees[1].branch = None \/ w.worktrees[1].branch \in w.merged)
    \/ ref \in w.merged

\* the commit the user made on `branch`
UserCommit(branch) == "c0ffee0:" \o branch

\* git rev-parse <ref>: a branch with the user's commit is at that commit, every
\* other ref is at the commit of the clone
CommitOf(w, ref) ==
    IF ref \in w.branches /\ ref \in w.ahead THEN UserCommit(ref) ELSE HeadCommit

\* git worktree add; the new worktree is listed last
AddWorktreeOk(w, path, branch, create_branch, base, detached) ==
    /\ ~PathExists(w, path)
    /\ detached => (~Truthy(base) \/ ResolvesRef(w, base))
    /\ (~detached /\ create_branch) =>
           /\ ~branch_exists(w, branch) /\ ~RefConflict(w, branch)
           /\ ~Truthy(base) \/ ResolvesRef(w, base)
    /\ (~detached /\ ~create_branch) =>
           branch_exists(w, branch) /\ ~worktree_exists(w, branch).exists

add_worktree(w, path, branch, create_branch, base, detached) ==
    LET startRef == IF Truthy(base) THEN base ELSE "HEAD"
        newBranch == ~detached /\ create_branch
        tracksRemote == newBranch /\ StartsWith(startRef, "origin/")
        checkedOut == IF detached \/ create_branch THEN startRef ELSE branch
        rec == [path |-> path, branch |-> IF detached THEN None ELSE branch,
                commit |-> CommitOf(w, checkedOut), locked |-> FALSE, stored |-> None,
                dirty |-> FALSE]
    IN [w EXCEPT
          !.worktrees = Append(w.worktrees, rec),
          !.branches = IF newBranch THEN @ \cup {branch} ELSE @,
          !.merged = IF newBranch /\ RefMerged(w, startRef) THEN @ \cup {branch} ELSE @,
          !.upstreamCfg =
              IF tracksRemote
              THEN [b \in DOMAIN @ \cup {branch} |->
                       IF b = branch THEN SubSeq(startRef, 8, Len(startRef)) ELSE @[b]]
              ELSE @,
          !.disk = @ \cup Ancestors(path)]

\* git worktree remove [--force]: refuses the main worktree, a locked worktree
\* and, without --force, a worktree with uncommitted changes
RemoveWorktreeOk(w, path, force) ==
    /\ \E i \in 2..Len(w.worktrees) : w.worktrees[i].path = path /\ ~w.worktrees[i].locked
    /\ force \/ ~has_uncommitted_changes(w, path)

remove_worktree(w, path, force) ==
    LET Keep(r) == r.path # path IN
    [w EXCEPT !.worktrees = SelectSeq(@, Keep),
              !.disk = {p \in @ : ~IsUnder(p, path)}]

\* git worktree prune: forget the unlocked linked worktrees whose directory is gone
prune_worktrees(w) ==
    LET Keep(r) == r.path = RepoRoot \/ r.locked \/ r.path \in w.disk IN
    [w EXCEPT !.worktrees = SelectSeq(@, Keep)]

\* git branch -d / -D: -d refuses a branch that is not merged into its upstream
\* or HEAD; both refuse a branch checked out in a worktree
DeleteBranchOk(w, branch, force) ==
    /\ branch \in w.branches
    /\ ~worktree_exists(w, branch).exists
    /\ force \/ branch \in w.merged \/ (get_upstream_branch(w, branch) # None /\ branch \notin w.ahead)

delete_branch(w, branch) ==
    [w EXCEPT !.branches = @ \ {branch}, !.merged = @ \ {branch}, !.ahead = @ \ {branch},
              !.upstreamCfg = [b \in DOMAIN @ \ {branch} |-> @[b]]]

\* the name stored for a detached worktree, or None
get_worktree_name(w, path) ==
    LET hits == {i \in 1..Len(w.worktrees) : w.worktrees[i].path = path} IN
    IF hits = {} THEN None ELSE w.worktrees[CHOOSE i \in hits : TRUE].stored

set_worktree_name(w, name, path) ==
    [w EXCEPT !.worktrees =
        [i \in 1..Len(@) |-> IF @[i].path = path THEN [@[i] EXCEPT !.stored = name] ELSE @[i]]]

\* branch.<branch>.remote / .merge
configure_push_remote(w, branch, remote_branch) ==
    [w EXCEPT !.upstreamCfg =
        [b \in DOMAIN @ \cup {branch} |-> IF b = branch THEN remote_branch ELSE @[b]]]

set_upstream(w, branch, remote_branch) == configure_push_remote(w, branch, remote_branch)

-----------------------------------------------------------------------------
\* WorktreeManager (wt/worktree.py): listing and lookup

\* the last path component
BaseName(p) ==
    LET cuts == {i \in 1..Len(p) : SubSeq(p, i, i) = "/"} IN
    IF cuts = {} THEN p
    ELSE SubSeq(p, (CHOOSE i \in cuts : \A j \in cuts : j <= i) + 1, Len(p))

infer_name_from_path(c, wt_path) ==
    LET pattern == ConfigGet(c, "path_pattern")
        expected_prefix == RepoName \o "-"
    IN IF pattern = "../{repo}-{name}"
       THEN IF StartsWith(BaseName(wt_path), expected_prefix)
            THEN SubSeq(BaseName(wt_path), Len(expected_prefix) + 1, Len(BaseName(wt_path)))
            ELSE None
       ELSE IF pattern = "../{name}"
            THEN IF wt_path # RepoRoot THEN BaseName(wt_path) ELSE None
            ELSE None

\* DerivedName taking the name inferred from the path before the stored one
DerivedName_InferredFirst(w, c, r) ==
    IF Truthy(r.branch) THEN extract_worktree_name(c, r.branch)
    ELSE LET stored_name == get_worktree_name(w, r.path)
             inferred_name == infer_name_from_path(c, r.path)
         IN IF Truthy(inferred_name) THEN inferred_name
            ELSE IF Truthy(stored_name) THEN stored_name
            ELSE "(detached-" \o SubSeq(r.commit, 1, 7) \o ")"

DerivedName(w, c, r) ==
    IF Truthy(r.branch) THEN extract_worktree_name(c, r.branch)
    ELSE LET stored_name == get_worktree_name(w, r.path)
             inferred_name == infer_name_from_path(c, r.path)
         IN IF Truthy(stored_name) THEN stored_name
            ELSE IF Truthy(inferred_name) THEN inferred_name
            ELSE "(detached-" \o SubSeq(r.commit, 1, 7) \o ")"

\* the enriched records: path, branch, commit, name
list_worktrees(w, c) ==
    [i \in 1..Len(w.worktrees) |->
        [path |-> w.worktrees[i].path, branch |-> w.worktrees[i].branch,
         commit |-> w.worktrees[i].commit, name |-> DerivedName(w, c, w.worktrees[i])]]

NoWorktree == [path |-> None, branch |-> None, commit |-> None, name |-> None]

\* the first element of seq whose index is in hits, or NoWorktree
FirstMatch(seq, hits) ==
    IF hits = {} THEN NoWorktree ELSE seq[CHOOSE i \in hits : \A j \in hits : i <= j]

get_current_worktree(w, c, dir) ==
    LET wts == list_worktrees(w, c) IN
    FirstMatch(wts, {i \in 1..Len(wts) : IsUnder(dir, wts[i].path)})

find_worktree_by_name(w, c, name) ==
    LET wts == list_worktrees(w, c)
        byName == {i \in 1..Len(wts) : wts[i].name = name}
        byBranch == {i \in 1..Len(wts) : wts[i].branch = name}
        byFull == {i \in 1..Len(wts) : wts[i].branch = get_branch_name(c, name)}
    IN IF byName # {} THEN FirstMatch(wts, byName)
       ELSE IF byBranch # {} THEN FirstMatch(wts, byBranch)
       ELSE FirstMatch(wts, byFull)

get_default_worktree(w, c) ==
    LET default_name == ConfigGet(c, "default_worktree")
        default_branch == get_default_branch(w)
        wts == list_worktrees(w, c)
        onDefault == {i \in 1..Len(wts) : wts[i].branch = default_branch}
    IN IF Truthy(default_name) THEN find_worktree_by_name(w, c, default_name)
       ELSE IF onDefault # {} THEN FirstMatch(wts, onDefault)
       ELSE IF Len(wts) > 0 THEN wts[1]
       ELSE NoWorktree

-----------------------------------------------------------------------------
\* WorktreeManager.create_worktree

\* what may go wrong in git beyond what the repository state decides
CreateFaults == {"none", "store", "wire"}

\* text is the message the error carries, prompt the user's reply to confirm()
\* ("none" when the call did not ask)
Outcome(w, value, err) ==
    [w |-> w, value |-> value, err |-> err, text |-> "", prompt |-> "none"]

\* the push/upstream wiring after the worktree was added; a failure is swallowed
WirePush(w, branch, create_branch, detached, fault) ==
    IF detached \/ fault = "wire" THEN w
    ELSE IF create_branch THEN configure_push_remote(w, branch, branch)
    ELSE IF remote_branch_exists(w, branch, "origin") THEN set_upstream(w, branch, branch)
    ELSE configure_push_remote(w, branch, branch)

\* create_worktree without the check for a worktree already on the branch
create_worktree_NoExistsCheck(w, c, name, base, detached, fault) ==
    LET branch == get_branch_name(c, name)
        create_branch == ~branch_exists(w, branch)
        wt_path == resolve_path_pattern(c, name, branch)
        base2 == IF base = None
                 THEN (IF detached THEN "HEAD" ELSE ConfigGet(c, "default_base"))
                 ELSE base
        added == add_worktree(w, wt_path, branch, create_branch, base2, detached)
    IN IF PathExists(w, wt_path) THEN Outcome(w, None, "PathExists")
       ELSE IF ~AddWorktreeOk(w, wt_path, branch, create_branch, base2, detached)
            THEN Outcome(w, None, "AddFailed")
       ELSE IF detached /\ fault = "store" THEN Outcome(added, None, "GitError")
       ELSE Outcome(WirePush(IF detached THEN set_worktree_name(added, name, wt_path)
                                          ELSE added,
                             branch, create_branch, detached, fault),
                    wt_path, None)

\* create_worktree always asking git for a new branch
create_worktree_AlwaysNewBranch(w, c, name, base, detached, fault) ==
    LET branch == get_branch_name(c, name)
        create_branch == TRUE
        found == worktree_exists(w, branch)
        wt_path == resolve_path_pattern(c, name, branch)
        base2 == IF base = None
                 THEN (IF detached THEN "HEAD" ELSE ConfigGet(c, "default_base"))
                 ELSE base
        added == add_worktree(w, wt_path, branch, create_branch, base2, detached)
    IN IF found.exists THEN Outcome(w, None, "AlreadyExists")
       ELSE IF PathExists(w, wt_path) THEN Outcome(w, None, "PathExists")
       ELSE IF ~AddWorktreeOk(w, wt_path, branch, create_branch, base2, detached)
            THEN Outcome(w, None, "AddFailed")
       ELSE IF detached /\ fault = "store" THEN Outcome(added, None, "GitError")
       ELSE Outcome(WirePush(IF detached THEN set_worktree_name(added, name, wt_path)
                                          ELSE added,
                             branch, create_branch, detached, fault),
                    wt_path, None)

\* create_worktree taking default_base for a detached worktree too
create_worktree_DetachedFromDefaultBase(w, c, name, base, detached, fault) ==
    LET branch == get_branch_name(c, name)
        create_branch == ~branch_exists(w, branch)
        found == worktree_exists(w, branch)
        wt_path == resolve_path_pattern(c, name, branch)
        base2 == IF base = None THEN ConfigGet(c, "default_base") ELSE base
        added == add_worktree(w, wt_path, branch, create_branch, base2, detached)
    IN IF found.exists THEN Outcome(w, None, "AlreadyExists")
       ELSE IF PathExists(w, wt_path) THEN Outcome(w, None, "PathExists")
       ELSE IF ~AddWorktreeOk(w, wt_path, branch, create_branch, base2, detached)
            THEN Outcome(w, None, "AddFailed")
       ELSE IF detached /\ fault = "store" THEN Outcome(added, None, "GitError")
       ELSE Outcome(WirePush(IF detached THEN set_worktree_name(added, name, wt_path)
                                          ELSE added,
                             branch, create_branch, detached, fault),
                    wt_path, None)

\* create_worktree raising when the push/upstream wiring fails
create_worktree_WireFatal(w, c, name, base, detached, fault) ==
    LET branch == get_branch_name(c, name)
        create_branch == ~branch_exists(w, branch)
        found == worktree_exists(w, branch)
        wt_path == resolve_path_pattern(c, name, branch)
        base2 == IF base = None
                 THEN (IF detached THEN "HEAD" ELSE ConfigGet(c, "default_base"))
                 ELSE base
        added == add_worktree(w, wt_path, branch, create_branch, base2, detached)
    IN IF found.exists THEN Outcome(w, None, "AlreadyExists")
       ELSE IF PathExists(w, wt_path) THEN Outcome(w, None, "PathExists")
       ELSE IF ~AddWorktreeOk(w, wt_path, branch, create_branch, base2, detached)
            THEN Outcome(w, None, "AddFailed")
       ELSE IF detached /\ fault = "store" THEN Outcome(added, None, "GitError")
       ELSE IF ~detached /\ fault = "wire" THEN Outcome(added, None, "GitError")
       ELSE Outcome(WirePush(IF detached THEN set_worktree_name(added, name, wt_path)
                                          ELSE added,
                             branch, create_branch, detached, fault),
                    wt_path, None)

\* create_worktree going to git worktree add without looking at the path
create_worktree_NoPathCheck(w, c, name, base, detached, fault) ==
    LET branch == get_branch_name(c, name)
        create_branch == ~branch_exists(w, branch)
        found == worktree_exists(w, branch)
        wt_path == resolve_path_pattern(c, name, branch)
        base2 == IF base = None
                 THEN (IF detached THEN "HEAD" ELSE ConfigGet(c, "default_base"))
                 ELSE base
        added == add_worktree(w, wt_path, branch, create_branch, base2, detached)
    IN IF found.exists THEN Outcome(w, None, "AlreadyExists")
       ELSE IF ~AddWorktreeOk(w, wt_path, branch, create_branch, base2, detached)
            THEN Outcome(w, None, "AddFailed")
       ELSE IF detached /\ fault = "store" THEN Outcome(added, None, "GitError")
       ELSE Outcome(WirePush(IF detached THEN set_worktree_name(added, name, wt_path)
                                          ELSE added,
                             branch, create_branch, detached, fault),
                    wt_path, None)

create_worktree(w, c, name, base, detached, fault) ==
    LET branch == get_branch_name(c, name)
        create_branch == ~branch_exists(w, branch)
        found == worktree_exists(w, branch)
        wt_path == resolve_path_pattern(c, name, branch)
        base2 == IF base = None
                 THEN (IF detached THEN "HEAD" ELSE ConfigGet(c, "default_base"))
                 ELSE base
        added == add_worktree(w, wt_path, branch, create_branch, base2, detached)
    IN IF found.exists THEN Outcome(w, None, "AlreadyExists")
       ELSE IF PathExists(w, wt_path) THEN Outcome(w, None, "PathExists")
       ELSE IF ~AddWorktreeOk(w, wt_path, branch, create_branch, base2, detached)
            THEN Outcome(w, None, "AddFailed")
       ELSE IF detached /\ fault = "store" THEN Outcome(added, None, "GitError")
       ELSE Outcome(WirePush(IF detached THEN set_worktree_name(added, name, wt_path)
                                          ELSE added,
                             branch, create_branch, detached, fault),
                    wt_path, None)

-----------------------------------------------------------------------------
\* WorktreeManager.delete_worktree

\* git status in a directory that is gone fails
StatusRaises(w, path) == path \notin w.disk

UnpushedCommits(w, branch) ==
    Truthy(branch) /\ get_upstream_branch(w, branch) # None /\ branch \in w.ahead

\* RemoveAndPrune deleting the branch whatever keep_branch says
RemoveAndPrune_IgnoresKeep(w, wt, force, keep_branch) ==
    LET removed == remove_worktree(w, wt.path, force)
        afterBranch == IF Truthy(wt.branch) /\ DeleteBranchOk(removed, wt.branch, force)
                       THEN delete_branch(removed, wt.branch)
                       ELSE removed
    IN prune_worktrees(afterBranch)

\* RemoveAndPrune deleting the branch before the worktree is removed
RemoveAndPrune_BranchFirst(w, wt, force, keep_branch) ==
    LET afterBranch == IF ~keep_branch /\ Truthy(wt.branch) /\ DeleteBranchOk(w, wt.branch, force)
                       THEN delete_branch(w, wt.branch)
                       ELSE w
    IN prune_worktrees(remove_worktree(afterBranch, wt.path, force))

\* remove the worktree, delete the branch unless kept, prune
RemoveAndPrune(w, wt, force, keep_branch) ==
    LET removed == remove_worktree(w, wt.path, force)
        afterBranch == IF ~keep_branch /\ Truthy(wt.branch) /\ DeleteBranchOk(removed, wt.branch, force)
                       THEN delete_branch(removed, wt.branch)
                       ELSE removed
    IN prune_worktrees(afterBranch)

\* os.getcwd() raises FileNotFoundError when the working directory was removed
CwdExists(w, dir) == dir = Elsewhere \/ dir \in w.disk

\* delete_worktree going on to the removal whatever the user answers
delete_worktree_IgnoresDecline(w, c, dir, name, force, keep_branch, answer) ==
    LET wt == find_worktree_by_name(w, c, name)
        current == get_current_worktree(w, c, dir)
        asked == ~force /\ UnpushedCommits(w, wt.branch)
        reply == IF ~asked THEN "none" ELSE IF answer THEN "yes" ELSE "no"
    IN IF wt = NoWorktree THEN Outcome(w, None, "NotFound")
       ELSE IF ~CwdExists(w, dir) THEN Outcome(w, None, "FileNotFoundError")
       ELSE IF current # NoWorktree /\ current.path = wt.path
            THEN Outcome(w, None, "CannotDeleteCurrent")
       ELSE IF ~force /\ StatusRaises(w, wt.path) THEN Outcome(w, None, "GitError")
       ELSE IF ~force /\ has_uncommitted_changes(w, wt.path)
            THEN [Outcome(w, None, "UncommittedChanges") EXCEPT
                     !.text = "Worktree '" \o name \o "' has uncommitted changes:\n"
                              \o get_status_short(w, wt.path)
                              \o "\nuse --force to delete anyway"]
       ELSE IF ~RemoveWorktreeOk(w, wt.path, force)
            THEN [Outcome(w, None, "RemoveFailed") EXCEPT
                     !.text = "Failed to remove worktree", !.prompt = reply]
       ELSE [Outcome(RemoveAndPrune(w, wt, force, keep_branch), "True", None) EXCEPT
                !.prompt = reply]

\* delete_worktree going on to the removal without the uncommitted-changes check
delete_worktree_NoDirtyCheck(w, c, dir, name, force, keep_branch, answer) ==
    LET wt == find_worktree_by_name(w, c, name)
        current == get_current_worktree(w, c, dir)
        asked == ~force /\ UnpushedCommits(w, wt.branch)
    IN IF wt = NoWorktree THEN Outcome(w, None, "NotFound")
       ELSE IF ~CwdExists(w, dir) THEN Outcome(w, None, "FileNotFoundError")
       ELSE IF current # NoWorktree /\ current.path = wt.path
            THEN Outcome(w, None, "CannotDeleteCurrent")
       ELSE IF asked /\ ~answer
            THEN [Outcome(w, "False", None) EXCEPT !.prompt = "no"]
       ELSE IF ~RemoveWorktreeOk(w, wt.path, force)
            THEN [Outcome(w, None, "RemoveFailed") EXCEPT
                     !.text = "Failed to remove worktree",
                     !.prompt = IF asked THEN "yes" ELSE "none"]
       ELSE [Outcome(RemoveAndPrune(w, wt, force, keep_branch), "True", None) EXCEPT
                !.prompt = IF asked THEN "yes" ELSE "none"]

\* the uncommitted-changes refusal ends the process through error(..., EXIT_ERROR)
delete_worktree(w, c, dir, name, force, keep_branch, answer) ==
    LET wt == find_worktree_by_name(w, c, name)
        current == get_current_worktree(w, c, dir)
        asked == ~force /\ UnpushedCommits(w, wt.branch)
    IN IF wt = NoWorktree THEN Outcome(w, None, "NotFound")
       ELSE IF ~CwdExists(w, dir) THEN Outcome(w, None, "FileNotFoundError")
       ELSE IF current # NoWorktree /\ current.path = wt.path
            THEN Outcome(w, None, "CannotDeleteCurrent")
       ELSE IF ~force /\ StatusRaises(w, wt.path) THEN Outcome(w, None, "GitError")
       ELSE IF ~force /\ has_uncommitted_changes(w, wt.path)
            THEN [Outcome(w, None, "UncommittedChanges") EXCEPT
                     !.text = "Worktree '" \o name \o "' has uncommitted changes:\n"
                              \o get_status_short(w, wt.path)
                              \o "\nuse --force to delete anyway"]
       ELSE IF asked /\ ~answer
            THEN [Outcome(w, "False", None) EXCEPT !.prompt = "no"]
       ELSE IF ~RemoveWorktreeOk(w, wt.path, force)
            THEN [Outcome(w, None, "RemoveFailed") EXCEPT
                     !.text = "Failed to remove worktree",
                     !.prompt = IF asked THEN "yes" ELSE "none"]
       ELSE [Outcome(RemoveAndPrune(w, wt, force, keep_branch), "True", None) EXCEPT
                !.prompt = IF asked THEN "yes" ELSE "none"]

-----------------------------------------------------------------------------
\* WorktreeManager.clean_merged_worktrees

\* upstream.split('/')[0] and '/'.join(upstream.split('/')[1:])
RemoteOf(upstream) ==
    LET cuts == {i \in 1..Len(upstream) : SubSeq(upstream, i, i) = "/"} IN
    IF cuts = {} THEN upstream
    ELSE SubSeq(upstream, 1, (CHOOSE i \in cuts : \A j \in cuts : i <= j) - 1)

RemoteBranchOf(upstream) ==
    LET cuts == {i \in 1..Len(upstream) : SubSeq(upstream, i, i) = "/"} IN
    IF cuts = {} THEN ""
    ELSE SubSeq(upstream, (CHOOSE i \in cuts : \A j \in cuts : i <= j) + 1, Len(upstream))

\* the reason a listed worktree is to be removed, or None
CleanReason(w, c, wt) ==
    LET default_branch == get_default_branch(w)
        upstream == IF Truthy(wt.branch) THEN get_upstream_branch(w, wt.branch) ELSE None
    IN IF ~Truthy(wt.branch) THEN None
       ELSE IF wt.branch = default_branch THEN None
       ELSE IF wt.name = wt.branch THEN None
       ELSE IF is_ancestor(w, wt.branch, "origin/" \o default_branch)
            THEN "merged into " \o default_branch
       ELSE IF Truthy(upstream)
               /\ ~remote_branch_exists(w, RemoteBranchOf(upstream), RemoteOf(upstream))
            THEN "remote branch deleted"
       ELSE None

\* to_remove: the (name, reason) pairs in listing order
ToRemove(w, c) ==
    LET wts == list_worktrees(w, c)
        Qualifies(wt) == CleanReason(w, c, wt) # None
        picked == SelectSeq(wts, Qualifies)
    IN [i \in 1..Len(picked) |->
           [name |-> picked[i].name, reason |-> CleanReason(w, c, picked[i])]]

\* the errors delete_worktree raises as git.GitError
GitErrors == {"NotFound", "CannotDeleteCurrent", "GitError", "RemoveFailed"}

\* the removal loop: each candidate is deleted by name with force, a GitError is
\* caught and warned, any other exception leaves the loop; acc carries the
\* repository, the names tried and removed, the prompts put to the user, and the
\* exception that left the loop
RECURSIVE RemovalLoop(_, _, _, _)
RemovalLoop(acc, c, dir, todo) ==
    IF todo = <<>> \/ acc.err # None THEN acc
    ELSE CHOOSE result \in
           {RemovalLoop(next, c, dir, Tail(todo)) :
              next \in {[w |-> out.w,
                         attempted |-> Append(acc.attempted, Head(todo).name),
                         asked |-> IF out.prompt = "none" THEN acc.asked
                                   ELSE Append(acc.asked, Head(todo).name),
                         removed |-> IF out.value = "True"
                                     THEN Append(acc.removed, Head(todo).name)
                                     ELSE acc.removed,
                         err |-> IF out.err \in GitErrors \cup {None} THEN None ELSE out.err] :
                        out \in {delete_worktree(acc.w, c, dir, Head(todo).name,
                                                 TRUE, FALSE, FALSE)}}} : TRUE

\* what clean_merged_worktrees hands back: the list; when an exception leaves it,
\* err names the exception and there is no list
CleanResult(w, value, attempted, asked) ==
    [w |-> w, value |-> value, attempted |-> attempted, asked |-> asked, err |-> None]

NamesOf(to_remove) == [i \in 1..Len(to_remove) |-> to_remove[i].name]

\* the one confirmation clean asks for
Proceed == "Proceed?"

\* clean_merged_worktrees asking for a confirmation before each removal
clean_merged_worktrees_AsksEach(w, c, dir, dry_run, force, answer) ==
    LET to_remove == ToRemove(w, c)
        confirmed == IF force THEN <<>> ELSE [i \in 1..Len(to_remove) |-> Proceed]
        ran == RemovalLoop([w |-> w, attempted |-> <<>>, removed |-> <<>>,
                            asked |-> confirmed, err |-> None],
                           c, dir, to_remove)
    IN IF to_remove = <<>> THEN CleanResult(w, <<>>, <<>>, <<>>)
       ELSE IF dry_run THEN CleanResult(w, NamesOf(to_remove), <<>>, <<>>)
       ELSE IF ~force /\ ~answer THEN CleanResult(w, <<>>, <<>>, <<Proceed>>)
       ELSE IF ran.err # None
            THEN [w |-> ran.w, value |-> <<>>, attempted |-> ran.attempted,
                  asked |-> ran.asked, err |-> ran.err]
       ELSE CleanResult(ran.w, ran.removed, ran.attempted, ran.asked)

\* answer is the user's reply to the confirmation prompt
\* value is the returned list, attempted the names delete_worktree was called
\* with, asked the prompts put to the user in order: Proceed for the batch, a
\* worktree's name for a prompt of its delete_worktree
clean_merged_worktrees(w, c, dir, dry_run, force, answer) ==
    LET to_remove == ToRemove(w, c)
        confirmed == IF force THEN <<>> ELSE <<Proceed>>
        ran == RemovalLoop([w |-> w, attempted |-> <<>>, removed |-> <<>>,
                            asked |-> confirmed, err |-> None],
                           c, dir, to_remove)
    IN IF to_remove = <<>> THEN CleanResult(w, <<>>, <<>>, <<>>)
       ELSE IF dry_run THEN CleanResult(w, NamesOf(to_remove), <<>>, <<>>)
       ELSE IF ~force /\ ~answer THEN CleanResult(w, <<>>, <<>>, confirmed)
       ELSE IF ran.err # None
            THEN [w |-> ran.w, value |-> <<>>, attempted |-> ran.attempted,
                  asked |-> ran.asked, err |-> ran.err]
       ELSE CleanResult(ran.w, ran.removed, ran.attempted, ran.asked)

-----------------------------------------------------------------------------
\* The worktree-list parser (wt/git.py list_worktrees)

\* git worktree list --porcelain for one worktree: its lines and a blank line
PorcelainRecord(r) ==
    <<"worktree " \o r.path, "HEAD " \o r.commit>>
    \o (IF Truthy(r.branch) THEN <<"branch refs/heads/" \o r.branch>> ELSE <<"detached">>)
    \o (IF r.locked THEN <<"locked">> ELSE <<>>)
    \o <<"">>

RECURSIVE Porcelain(_)
Porcelain(rs) == IF rs = <<>> THEN <<>> ELSE PorcelainRecord(Head(rs)) \o Porcelain(Tail(rs))

\* str.strip() seen on lines: the blank lines at both ends go
RECURSIVE StripLines(_)
StripLines(lines) ==
    IF lines = <<>> THEN lines
    ELSE IF Head(lines) = "" THEN StripLines(Tail(lines))
    ELSE IF lines[Len(lines)] = "" THEN StripLines(SubSeq(lines, 1, Len(lines) - 1))
    ELSE lines

\* line.split(" ", 1)[1]
AfterSpace(line) == SubSeq(line, IndexOf(line, " ") + 1, Len(line))

\* a dict as a function from its keys
NoDict == [k \in {} |-> None]
DictPut(d, key, value) == [k \in DOMAIN d \cup {key} |-> IF k = key THEN value ELSE d[k]]
DictGet(d, key) == IF key \in DOMAIN d THEN d[key] ELSE None

\* the loop over the lines, with the flush after it
RECURSIVE ParseRecords(_, _, _)
ParseRecords(lines, current, parsed) ==
    LET flushed == IF DOMAIN current # {} THEN Append(parsed, current) ELSE parsed IN
    IF lines = <<>> THEN flushed
    ELSE LET line == Head(lines) IN
         IF line = "" THEN ParseRecords(Tail(lines), NoDict, flushed)
         ELSE IF StartsWith(line, "worktree ")
              THEN ParseRecords(Tail(lines), DictPut(current, "path", AfterSpace(line)), parsed)
         ELSE IF StartsWith(line, "HEAD ")
              THEN ParseRecords(Tail(lines), DictPut(current, "commit", AfterSpace(line)), parsed)
         ELSE IF StartsWith(line, "branch ")
              THEN ParseRecords(Tail(lines),
                                DictPut(current, "branch",
                                        Replace(AfterSpace(line), "refs/heads/", "")),
                                parsed)
         ELSE IF StartsWith(line, "detached")
              THEN ParseRecords(Tail(lines), DictPut(current, "branch", None), parsed)
         ELSE IF StartsWith(line, "locked")
              THEN ParseRecords(Tail(lines), DictPut(current, "locked", TRUE), parsed)
         ELSE ParseRecords(Tail(lines), current, parsed)

\* git.list_worktrees on the output of git worktree list --porcelain
parse_worktree_list(stdout) == ParseRecords(StripLines(stdout), NoDict, <<>>)

-----------------------------------------------------------------------------
\* The state machine

MainWorktree ==
    [path |-> RepoRoot, branch |-> "main", commit |-> HeadCommit, locked |-> FALSE,
     stored |-> None, dirty |-> FALSE]

NoOp ==
    [op |-> "none", name |-> None, base |-> None, detached |-> FALSE, force |-> FALSE,
     keep_branch |-> FALSE, dry_run |-> FALSE, value |-> None, err |-> None,
     text |-> "", prompt |-> "none", names |-> <<>>, attempted |-> <<>>,
     asked |-> <<>>, stdout |-> <<>>, parsed |-> <<>>, fault |-> "none"]

SyncIdle == [pc |-> "idle"]

\* a clone of a remote whose default branch is main and that also holds feature/x
Init ==
    /\ worktrees = <<MainWorktree>>
    /\ branches = {"main"}
    /\ merged = {"main"}
    /\ ahead = {}
    /\ upstreamCfg = [b \in {"main"} |-> "main"]
    /\ remoteRefs = {"main", "feature/x"}
    /\ disk = {RepoRoot}
    /\ stash = <<>>
    /\ cwd = RepoRoot
    /\ cfg = DEFAULT_CONFIG
    /\ files = NoFiles
    /\ last = NoOp
    /\ sync = SyncIdle
    /\ userSteps = 0

SetWorld(w) ==
    /\ worktrees' = w.worktrees
    /\ branches' = w.branches
    /\ merged' = w.merged
    /\ ahead' = w.ahead
    /\ upstreamCfg' = w.upstreamCfg
    /\ remoteRefs' = w.remoteRefs
    /\ disk' = w.disk
    /\ stash' = w.stash

Idle == sync.pc = "idle"

\* a command starts when no sync is running, in a directory that exists
Ready == Idle /\ CwdExists(World, cwd)

Bases == {None, "main"}

\* wt switch -c <name> [--detached] [base], with git failing as in faults
CreateFrom(names, bases, faults, maxLinked) ==
    /\ Ready
    /\ Len(worktrees) <= maxLinked
    /\ \E name \in names, base \in bases, detached \in BOOLEAN, fault \in faults :
        \E out \in {create_worktree(World, cfg, name, base, detached, fault)} :
          /\ fault = "store" => detached
          /\ fault = "wire" => ~detached
          /\ SetWorld(out.w)
          /\ last' = [NoOp EXCEPT !.op = "create", !.name = name, !.base = base,
                                  !.fault = fault,
                                  !.detached = detached, !.value = out.value,
                                  !.err = out.err]
    /\ UNCHANGED <<cwd, cfg, files, sync, userSteps>>

CreateWith(faults) == CreateFrom(Names, Bases, faults, MaxLinked)

CreateWorktree == CreateWith({"none"})

\* wt delete <name> [--force] [--keep-branch]
DeleteNamed(names) ==
    /\ Ready
    /\ \E name \in names, force \in BOOLEAN, keep_branch \in BOOLEAN, answer \in BOOLEAN :
        \E out \in {delete_worktree(World, cfg, cwd, name, force, keep_branch, answer)} :
          /\ SetWorld(out.w)
          /\ last' = [NoOp EXCEPT !.op = "delete", !.name = name, !.force = force,
                                  !.keep_branch = keep_branch, !.value = out.value,
                                  !.err = out.err, !.text = out.text,
                                  !.prompt = out.prompt]
    /\ UNCHANGED <<cwd, cfg, files, sync, userSteps>>

DeleteWorktree == DeleteNamed(Names)

\* wt clean [--dry-run] [--force]
CleanMerged ==
    /\ Ready
    /\ \E dry_run \in BOOLEAN, force \in BOOLEAN, answer \in BOOLEAN :
        \E out \in {clean_merged_worktrees(World, cfg, cwd, dry_run, force, answer)} :
          /\ SetWorld(out.w)
          /\ last' = [NoOp EXCEPT !.op = "clean", !.dry_run = dry_run, !.force = force,
                                  !.names = out.value, !.attempted = out.attempted,
                                  !.asked = out.asked,
                                  !.prompt = IF out.asked = <<>> THEN "none"
                                             ELSE IF answer THEN "yes" ELSE "no",
                                  !.err = out.err]
    /\ UNCHANGED <<cwd, cfg, files, sync, userSteps>>

\* the user changes directory to a worktree (wt switch) or out of the repository
Chdir ==
    /\ Idle
    /\ \E p \in {worktrees[i].path : i \in 1..Len(worktrees)} \cup {Elsewhere} :
          cwd' = p /\ cwd # p
    /\ last' = NoOp
    /\ UNCHANGED <<worktrees, branches, merged, ahead, upstreamCfg, remoteRefs, disk,
                   stash, cfg, files, sync, userSteps>>

\* the user edits a file in a linked worktree
Edit ==
    /\ Idle
    /\ userSteps < MaxUserSteps
    /\ userSteps' = userSteps + 1
    /\ \E i \in 2..Len(worktrees) :
          /\ ~worktrees[i].dirty /\ worktrees[i].path \in disk
          /\ worktrees' = [worktrees EXCEPT ![i].dirty = TRUE]
    /\ last' = NoOp
    /\ UNCHANGED <<branches, merged, ahead, upstreamCfg, remoteRefs, disk, stash, cwd,
                   cfg, files, sync>>

\* the user commits in a linked worktree that is on a branch
Commit ==
    /\ Idle
    /\ userSteps < MaxUserSteps
    /\ userSteps' = userSteps + 1
    /\ \E i \in 2..Len(worktrees) :
          /\ Truthy(worktrees[i].branch) /\ worktrees[i].path \in disk
          /\ worktrees[i].branch \notin ahead
          /\ merged' = merged \ {worktrees[i].branch}
          /\ ahead' = ahead \cup {worktrees[i].branch}
          /\ worktrees' = [worktrees EXCEPT ![i].dirty = FALSE,
                                            ![i].commit = UserCommit(worktrees[i].branch)]
    /\ last' = NoOp
    /\ UNCHANGED <<branches, upstreamCfg, remoteRefs, disk, stash, cwd, cfg, files, sync>>

-----------------------------------------------------------------------------
\* WorktreeManager.sync_worktree and sync_worktrees, one git call per step

\* git stash push / git stash pop in the worktree at path
stash_changes(w, path) ==
    [w EXCEPT !.worktrees =
                 [i \in 1..Len(@) |-> IF @[i].path = path THEN [@[i] EXCEPT !.dirty = FALSE]
                                      ELSE @[i]],
              !.stash = <<path>> \o @]

stash_pop(w, path) ==
    [w EXCEPT !.worktrees =
                 [i \in 1..Len(@) |-> IF @[i].path = path THEN [@[i] EXCEPT !.dirty = TRUE]
                                      ELSE @[i]],
              !.stash = Tail(@)]

\* the result dict of sync_worktree as first built
NewResult == [success |-> FALSE, stashed |-> FALSE, message |-> <<>>, error |-> None]

\* names the user passes to wt sync; "nope" names no worktree
SyncNames == {"x", "y", "nope"}

NameLists == UNION {[1..n -> SyncNames] : n \in 0..MaxTargets}

\* the worktrees found for the names, in order; unknown names are skipped
RECURSIVE ResolveTargets(_, _, _)
ResolveTargets(w, c, names) ==
    IF names = <<>> THEN <<>>
    ELSE LET wt == find_worktree_by_name(w, c, Head(names)) IN
         (IF wt # NoWorktree THEN <<wt>> ELSE <<>>) \o ResolveTargets(w, c, Tail(names))

Target == sync.targets[sync.idx]

Op(name, ok) == [op |-> name, ok |-> ok]

SyncStep(pc) == /\ sync.pc = pc
                /\ UNCHANGED <<cwd, cfg, files, last, userSteps>>

KeepWorld == UNCHANGED <<worktrees, branches, merged, ahead, upstreamCfg, remoteRefs,
                         disk, stash>>

\* sync_worktrees up to the loop: the targets are resolved, or the call raises;
\* given is false when worktree_names is None (the current worktree is synced)
SyncStart ==
    /\ SyncStep("idle")
    /\ KeepWorld
    /\ \E given \in BOOLEAN, names \in NameLists, rebase \in BOOLEAN :
          LET current == get_current_worktree(World, cfg, cwd)
              targets == IF ~given
                         THEN (IF current = NoWorktree THEN <<>> ELSE <<current>>)
                         ELSE ResolveTargets(World, cfg, names)
          IN /\ ~given => names = <<>>
             /\ sync' = [pc |-> IF targets = <<>> THEN "raised" ELSE "detect",
                      given |-> given, names |-> names, rebase |-> rebase, targets |-> targets, idx |-> 1,
                      result |-> NewResult, exc |-> FALSE, ops |-> <<>>, onto |-> None,
                      succeeded |-> <<>>, failed |-> <<>>, reported |-> <<>>,
                      before |-> World]

\* SyncDetect going on to the stash step for a branch without upstream
SyncDetect_NoUpstreamCheck ==
    /\ SyncStep("detect")
    /\ KeepWorld
    /\ sync' =
        IF ~Truthy(Target.branch)
        THEN [sync EXCEPT !.pc = "report", !.result.error = "detached HEAD, skipping"]
        ELSE [sync EXCEPT !.pc = "stash"]

\* detached HEAD and missing upstream end the run of this worktree
SyncDetect ==
    /\ SyncStep("detect")
    /\ KeepWorld
    /\ sync' =
        IF ~Truthy(Target.branch)
        THEN [sync EXCEPT !.pc = "report", !.result.error = "detached HEAD, skipping"]
        ELSE IF ~Truthy(get_upstream_branch(World, Target.branch))
        THEN [sync EXCEPT !.pc = "report", !.result.error = "no upstream branch"]
        ELSE [sync EXCEPT !.pc = "stash"]

\* SyncStash going on to the pull when the stash push failed
SyncStash_IgnoresFailure ==
    /\ SyncStep("stash")
    /\ IF StatusRaises(World, Target.path)
       THEN KeepWorld /\ sync' = [sync EXCEPT !.pc = "raised", !.exc = TRUE]
       ELSE IF has_uncommitted_changes(World, Target.path)
       THEN \E ok \in BOOLEAN :
              IF ok
              THEN /\ SetWorld(stash_changes(World, Target.path))
                   /\ sync' = [sync EXCEPT !.pc = "pull", !.result.stashed = TRUE,
                                           !.ops = Append(@, Op("stash_push", TRUE))]
              ELSE /\ KeepWorld
                   /\ sync' = [sync EXCEPT !.pc = "pull",
                                           !.ops = Append(@, Op("stash_push", FALSE))]
       ELSE KeepWorld /\ sync' = [sync EXCEPT !.pc = "pull"]

\* Step 1: stash uncommitted changes if any; git status may raise
SyncStash ==
    /\ SyncStep("stash")
    /\ IF StatusRaises(World, Target.path)
       THEN KeepWorld /\ sync' = [sync EXCEPT !.pc = "raised", !.exc = TRUE]
       ELSE IF has_uncommitted_changes(World, Target.path)
       THEN \E ok \in BOOLEAN :
              IF ok
              THEN /\ SetWorld(stash_changes(World, Target.path))
                   /\ sync' = [sync EXCEPT !.pc = "pull", !.result.stashed = TRUE,
                                           !.ops = Append(@, Op("stash_push", TRUE))]
              ELSE /\ KeepWorld
                   /\ sync' = [sync EXCEPT !.pc = "report",
                                           !.result.error = "failed to stash changes",
                                           !.ops = Append(@, Op("stash_push", FALSE))]
       ELSE KeepWorld /\ sync' = [sync EXCEPT !.pc = "pull"]

PullOutcomes == {"already_up_to_date", "fast_forward", "merged", "failed", "raise"}

\* SyncPull outside any try/finally: a failed or raising pull returns at once
SyncPull_NoFinally ==
    /\ SyncStep("pull")
    /\ KeepWorld
    /\ \E out \in PullOutcomes :
          sync' =
            IF out = "raise"
            THEN [sync EXCEPT !.pc = "raised", !.exc = TRUE,
                              !.ops = Append(@, Op("pull", FALSE))]
            ELSE IF out = "failed"
            THEN [sync EXCEPT !.pc = "report", !.result.error = "pull " \o out,
                              !.ops = Append(@, Op("pull", FALSE))]
            ELSE [sync EXCEPT !.pc = IF sync.rebase THEN "rebase" ELSE "restore",
                              !.result.message = Append(@, out),
                              !.result.success = ~sync.rebase,
                              !.ops = Append(@, Op("pull", TRUE))]

\* SyncPull going on to the rebase after a failed pull
SyncPull_RebasesAnyway ==
    /\ SyncStep("pull")
    /\ KeepWorld
    /\ \E out \in PullOutcomes :
          sync' =
            IF out = "raise"
            THEN [sync EXCEPT !.pc = "restore", !.exc = TRUE,
                              !.ops = Append(@, Op("pull", FALSE))]
            ELSE IF out = "failed"
            THEN [sync EXCEPT !.pc = IF sync.rebase THEN "rebase" ELSE "restore",
                              !.result.error = "pull " \o out,
                              !.ops = Append(@, Op("pull", FALSE))]
            ELSE [sync EXCEPT !.pc = IF sync.rebase THEN "rebase" ELSE "restore",
                              !.result.message = Append(@, out),
                              !.result.success = ~sync.rebase,
                              !.ops = Append(@, Op("pull", TRUE))]

\* Step 2: pull from upstream, inside the try block
SyncPull ==
    /\ SyncStep("pull")
    /\ KeepWorld
    /\ \E out \in PullOutcomes :
          sync' =
            IF out = "raise"
            THEN [sync EXCEPT !.pc = "restore", !.exc = TRUE,
                              !.ops = Append(@, Op("pull", FALSE))]
            ELSE IF out = "failed"
            THEN [sync EXCEPT !.pc = "restore", !.result.error = "pull " \o out,
                              !.ops = Append(@, Op("pull", FALSE))]
            ELSE [sync EXCEPT !.pc = IF sync.rebase THEN "rebase" ELSE "restore",
                              !.result.message = Append(@, out),
                              !.result.success = ~sync.rebase,
                              !.ops = Append(@, Op("pull", TRUE))]

RebaseOutcomes == {"up_to_date", "rebased", "failed", "raise"}

\* the ref sync_worktree rebases onto
rebase_target(c) ==
    IF Truthy(ConfigGet(c, "default_base")) THEN ConfigGet(c, "default_base")
    ELSE "origin/main"

\* Step 3: rebase onto default_base when requested
SyncRebase ==
    /\ SyncStep("rebase")
    /\ KeepWorld
    /\ \E out \in RebaseOutcomes :
          sync' =
            IF out = "raise"
            THEN [sync EXCEPT !.pc = "restore", !.exc = TRUE,
                              !.onto = rebase_target(cfg),
                              !.ops = Append(@, Op("rebase", FALSE))]
            ELSE IF out = "failed"
            THEN [sync EXCEPT !.pc = "restore", !.result.error = "rebase " \o out,
                              !.onto = rebase_target(cfg),
                              !.ops = Append(@, Op("rebase", FALSE))]
            ELSE [sync EXCEPT !.pc = "restore",
                              !.result.message = Append(@, out),
                              !.result.success = TRUE,
                              !.onto = rebase_target(cfg),
                              !.ops = Append(@, Op("rebase", TRUE))]

\* AfterPop recording the stash conflict without withdrawing the success
AfterPop_ErrorOnly(result, ok) ==
    IF ok THEN [result EXCEPT !.message = Append(@, "Stash applied")]
    ELSE IF result.success
         THEN [result EXCEPT !.error = "stash conflict"]
         ELSE result

\* AfterPop leaving a successful result as it is when the pop fails
AfterPop_KeepsSuccess(result, ok) ==
    IF ok THEN [result EXCEPT !.message = Append(@, "Stash applied")] ELSE result

\* the result after the finally block, given whether the stash pop worked
AfterPop(result, ok) ==
    IF ok THEN [result EXCEPT !.message = Append(@, "Stash applied")]
    ELSE IF result.success
         THEN [result EXCEPT !.error = "stash conflict", !.success = FALSE]
         ELSE result

\* SyncRestore popping the stash whether or not this run stashed
SyncRestore_PopsAlways ==
    /\ SyncStep("restore")
    /\ \E ok \in (IF stash = <<>> THEN {FALSE} ELSE BOOLEAN) :
          /\ IF ok THEN SetWorld(stash_pop(World, Target.path)) ELSE KeepWorld
          /\ sync' = [sync EXCEPT !.pc = IF sync.exc THEN "raised" ELSE "report",
                                  !.result = AfterPop(@, ok),
                                  !.ops = Append(@, Op("stash_pop", ok))]

\* Step 4, the finally block: pop the stash if this run stashed
SyncRestore ==
    /\ SyncStep("restore")
    /\ IF sync.result.stashed
       THEN \E ok \in BOOLEAN :
              /\ IF ok THEN SetWorld(stash_pop(World, Target.path)) ELSE KeepWorld
              /\ sync' = [sync EXCEPT !.pc = IF sync.exc THEN "raised" ELSE "report",
                                      !.result = AfterPop(@, ok),
                                      !.ops = Append(@, Op("stash_pop", ok))]
       ELSE /\ KeepWorld
            /\ sync' = [sync EXCEPT !.pc = IF sync.exc THEN "raised" ELSE "report"]

\* SyncReport putting each result in front of the earlier ones
SyncReport_Prepends ==
    /\ SyncStep("report")
    /\ KeepWorld
    /\ sync' =
        [sync EXCEPT
           !.pc = IF sync.idx = Len(sync.targets) THEN "done" ELSE "detect",
           !.idx = IF sync.idx = Len(sync.targets) THEN @ ELSE @ + 1,
           !.succeeded = IF sync.result.success
                         THEN <<[name |-> Target.name,
                                 message |-> sync.result.message]>> \o @
                         ELSE @,
           !.failed = IF sync.result.success THEN @
                      ELSE <<[name |-> Target.name, error |-> sync.result.error,
                              stashed |-> sync.result.stashed]>> \o @,
           !.reported = <<sync.idx>> \o @,
           !.result = IF sync.idx = Len(sync.targets) THEN @ ELSE NewResult,
           !.ops = IF sync.idx = Len(sync.targets) THEN @ ELSE <<>>,
           !.onto = IF sync.idx = Len(sync.targets) THEN @ ELSE None,
           !.before = IF sync.idx = Len(sync.targets) THEN @ ELSE World]

\* the loop body of sync_worktrees after sync_worktree returned
SyncReport ==
    /\ SyncStep("report")
    /\ KeepWorld
    /\ sync' =
        [sync EXCEPT
           !.pc = IF sync.idx = Len(sync.targets) THEN "done" ELSE "detect",
           !.idx = IF sync.idx = Len(sync.targets) THEN @ ELSE @ + 1,
           !.succeeded = IF sync.result.success
                         THEN Append(@, [name |-> Target.name,
                                         message |-> sync.result.message])
                         ELSE @,
           !.failed = IF sync.result.success THEN @
                      ELSE Append(@, [name |-> Target.name, error |-> sync.result.error,
                                      stashed |-> sync.result.stashed]),
           !.reported = Append(@, sync.idx),
           !.result = IF sync.idx = Len(sync.targets) THEN @ ELSE NewResult,
           !.ops = IF sync.idx = Len(sync.targets) THEN @ ELSE <<>>,
           !.onto = IF sync.idx = Len(sync.targets) THEN @ ELSE None,
           !.before = IF sync.idx = Len(sync.targets) THEN @ ELSE World]

\* sync_worktrees returned or raised; the process ends
SyncReturn ==
    /\ SyncStep("done") \/ SyncStep("raised")
    /\ KeepWorld
    /\ sync' = SyncIdle

SyncNext ==
    \/ SyncStart \/ SyncDetect \/ SyncStash \/ SyncPull \/ SyncRebase
    \/ SyncRestore \/ SyncReport \/ SyncReturn

\* the linked worktrees of the repositories sync is checked on: x is on
\* feature/x or detached, y is on feature/y and its directory may be gone
LinkedX(branch, dirty) ==
    [path |-> "../repo-x", branch |-> branch, commit |-> HeadCommit, locked |-> FALSE,
     stored |-> IF branch = None THEN "x" ELSE None, dirty |-> dirty]

LinkedY(dirty) ==
    [path |-> "../repo-y", branch |-> "feature/y", commit |-> HeadCommit,
     locked |-> FALSE, stored |-> None, dirty |-> dirty]

\* the values of default_base sync runs with; the empty string is unset
DefaultBases == {"origin/main", "", "upstream/dev"}

SyncInit ==
    /\ \E bx \in {"feature/x", None}, dx \in BOOLEAN, dy \in BOOLEAN :
          worktrees = <<MainWorktree, LinkedX(bx, dx), LinkedY(dy)>>
    /\ branches = {"main", "feature/x", "feature/y"}
    /\ merged = {"main"}
    /\ ahead = {}
    /\ upstreamCfg = [b \in {"main", "feature/x", "feature/y"} |-> b]
    /\ remoteRefs \in {{"main", "feature/y"}, {"main", "feature/x", "feature/y"}}
    /\ disk \in {{RepoRoot, "../repo-x", "../repo-y"}, {RepoRoot, "../repo-x"}}
    /\ "../repo-y" \notin disk => ~worktrees[3].dirty
    /\ stash = <<>>
    /\ cwd \in {RepoRoot, "../repo-x", Elsewhere}
    /\ \E b \in DefaultBases : cfg = [DEFAULT_CONFIG EXCEPT !.default_base = b]
    /\ files = NoFiles
    /\ last = NoOp
    /\ sync = SyncIdle
    /\ userSteps = 0

SyncSpec == SyncInit /\ [][SyncNext]_vars

\* wt sync in a repository whose stash already holds an entry the user pushed
\* earlier, in the main worktree or in x
EarlierStashes == {<<RepoRoot>>, <<"../repo-x">>}

StashInit ==
    /\ \E bx \in {"feature/x", None}, dx \in BOOLEAN, dy \in BOOLEAN :
          worktrees = <<MainWorktree, LinkedX(bx, dx), LinkedY(dy)>>
    /\ branches = {"main", "feature/x", "feature/y"}
    /\ merged = {"main"}
    /\ ahead = {}
    /\ upstreamCfg = [b \in {"main", "feature/x", "feature/y"} |-> b]
    /\ remoteRefs \in {{"main", "feature/y"}, {"main", "feature/x", "feature/y"}}
    /\ disk = {RepoRoot, "../repo-x", "../repo-y"}
    /\ stash \in EarlierStashes
    /\ cwd \in {RepoRoot, "../repo-x"}
    /\ cfg = DEFAULT_CONFIG
    /\ files = NoFiles
    /\ last = NoOp
    /\ sync = SyncIdle
    /\ userSteps = 0

StashSpec == StashInit /\ [][SyncNext]_vars

\* The same commands with names whose worktree directories nest:
\* ../repo-feature/x lies inside ../repo-feature
NestNames == {"feature", "feature/x", "x", "y"}

NestCreate == CreateFrom(NestNames, {None}, {"none"}, MaxNested)

NestSpec ==
    Init /\ [][NestCreate \/ CleanMerged \/ Chdir]_vars

\* wt create and wt delete with names whose directories lie inside one another
NestPair == {"feature", "feature/x"}

NestPairCreate == CreateFrom(NestPair, {None}, {"none"}, MaxLinked)

NestPairDelete == DeleteNamed(NestPair)

NestPairSpec ==
    Init /\ [][NestPairCreate \/ NestPairDelete \/ Chdir \/ Edit \/ Commit]_vars

\* wt config default_worktree <value>: any non-empty value is stored as given
ConfigSet ==
    /\ Idle
    /\ \E value \in {"x", "main"} :
          /\ ConfigGet(cfg, "default_worktree") # value
          /\ cfg' = [cfg EXCEPT !.default_worktree = value]
    /\ last' = NoOp
    /\ UNCHANGED <<files, worktrees, branches, merged, ahead, upstreamCfg, remoteRefs, disk,
                   stash, cwd, sync, userSteps>>

\* the user runs git checkout --detach, or git checkout main again, in the main
\* worktree
CheckoutMain ==
    /\ Idle
    /\ \E b \in {None, "main"} :
          /\ worktrees[1].branch # b
          /\ \A i \in 2..Len(worktrees) : worktrees[i].branch # b
          /\ worktrees' = [worktrees EXCEPT ![1].branch = b]
    /\ last' = NoOp
    /\ UNCHANGED <<branches, merged, ahead, upstreamCfg, remoteRefs, disk, stash, cwd,
                   cfg, files, sync, userSteps>>

DefaultNames == {"x", "main"}

DefaultCreate == CreateFrom(DefaultNames, {None}, {"none"}, MaxLinked)

DefaultDelete == DeleteNamed(DefaultNames)

DefaultSpec ==
    Init /\ [][DefaultCreate \/ DefaultDelete \/ ConfigSet \/ CheckoutMain \/ Chdir]_vars

\* the prefixes and names the two naming functions are applied to
Prefixes == {"", "feature", "fix", "a/b"}

NameInputs == {"", "foo", "x", "feature", "feature/foo", "fix/x", "a/b/x"}

BranchInputs == NameInputs \cup {p \o "/" \o n : p \in Prefixes \ {""}, n \in NameInputs}

\* Config.set("prefix", value)
SetPrefix ==
    /\ Idle
    /\ \E value \in Prefixes :
          /\ ConfigGet(cfg, "prefix") # value
          /\ cfg' = [cfg EXCEPT !.prefix = value]
    /\ last' = NoOp
    /\ UNCHANGED <<files, worktrees, branches, merged, ahead, upstreamCfg, remoteRefs, disk,
                   stash, cwd, sync, userSteps>>

BranchNameOf ==
    /\ Idle
    /\ \E name \in NameInputs :
          last' = [NoOp EXCEPT !.op = "get_branch_name", !.name = name,
                               !.value = get_branch_name(cfg, name)]
    /\ UNCHANGED <<worktrees, branches, merged, ahead, upstreamCfg, remoteRefs, disk,
                   stash, cwd, cfg, files, sync, userSteps>>

WorktreeNameOf ==
    /\ Idle
    /\ \E branch \in BranchInputs :
          last' = [NoOp EXCEPT !.op = "extract_worktree_name", !.name = branch,
                               !.value = extract_worktree_name(cfg, branch)]
    /\ UNCHANGED <<worktrees, branches, merged, ahead, upstreamCfg, remoteRefs, disk,
                   stash, cwd, cfg, files, sync, userSteps>>

NameSpec ==
    Init /\ [][SetPrefix \/ BranchNameOf \/ WorktreeNameOf]_vars

\* the keys and values handed to Config.set, and the files a user writes by hand
ConfigKeys == {"prefix", "default_worktree", "color", "Prefix"}

ConfigValues == {"custom", "", "a\"b", "a\\tb"}

HandWritten == {<<"color = \"red\"">>, <<"prefix = \"wt\"", "editor = \"vi\"">>}

\* config.set(key, value)
SetKey ==
    /\ Idle
    /\ userSteps < MaxConfigSteps
    /\ userSteps' = userSteps + 1
    /\ \E key \in ConfigKeys, value \in ConfigValues :
        \E out \in {Config_set(cfg, key, value)} :
          /\ cfg' = out.cfg
          /\ last' = [NoOp EXCEPT !.op = "set", !.name = key, !.value = value,
                                  !.err = out.err]
    /\ UNCHANGED <<worktrees, branches, merged, ahead, upstreamCfg, remoteRefs, disk,
                   stash, cwd, files, sync>>

\* config.save_local()
SaveLocal ==
    /\ Idle
    /\ files' = [files EXCEPT !.local = save(cfg)]
    /\ last' = [NoOp EXCEPT !.op = "save_local"]
    /\ UNCHANGED <<worktrees, branches, merged, ahead, upstreamCfg, remoteRefs, disk,
                   stash, cwd, cfg, sync, userSteps>>

\* config.save_global()
SaveGlobal ==
    /\ Idle
    /\ files' = [files EXCEPT !.global = save(cfg)]
    /\ last' = [NoOp EXCEPT !.op = "save_global"]
    /\ UNCHANGED <<worktrees, branches, merged, ahead, upstreamCfg, remoteRefs, disk,
                   stash, cwd, cfg, sync, userSteps>>

\* Config(repo_root): a new Config replaces the old one unless reading fails
NewConfig ==
    /\ Idle
    /\ \E out \in {load_config(files)} :
          /\ cfg' = IF out.err = None THEN out.cfg ELSE cfg
          /\ last' = [NoOp EXCEPT !.op = "load", !.err = out.err]
    /\ UNCHANGED <<worktrees, branches, merged, ahead, upstreamCfg, remoteRefs, disk,
                   stash, cwd, files, sync, userSteps>>

\* the user writes .wt.toml with an editor
EditFile ==
    /\ Idle
    /\ userSteps < MaxConfigSteps
    /\ userSteps' = userSteps + 1
    /\ \E text \in HandWritten : files' = [files EXCEPT !.local = text]
    /\ last' = NoOp
    /\ UNCHANGED <<worktrees, branches, merged, ahead, upstreamCfg, remoteRefs, disk,
                   stash, cwd, cfg, sync>>

ConfigSpec ==
    Init /\ [][SetKey \/ SaveLocal \/ SaveGlobal \/ NewConfig \/ EditFile]_vars

\* a remote branch is deleted on origin and git fetch --prune drops its
\* remote-tracking ref; the default branch stays
FetchPrune ==
    /\ Idle
    /\ \E b \in remoteRefs \ {"main"} : remoteRefs' = remoteRefs \ {b}
    /\ last' = NoOp
    /\ UNCHANGED <<worktrees, branches, merged, ahead, upstreamCfg, disk, stash,
                   cwd, cfg, files, sync, userSteps>>

CleanCreate == CreateFrom({"x", "main"}, {None}, {"none"}, MaxLinked)

CleanSpec ==
    Init /\ [][CleanCreate \/ Commit \/ FetchPrune \/ CleanMerged]_vars

\* the path patterns the user configures: the two _infer_name_from_path knows
\* and one it does not
Patterns == {"../{repo}-{name}", "../{name}", "../wt-{name}"}

LegacyNames == {"x", "y"}

\* config.set("path_pattern", ...)
SetPattern ==
    /\ Idle
    /\ \E value \in Patterns :
          \E out \in {Config_set(cfg, "path_pattern", value)} :
             /\ out.err = None
             /\ out.cfg # cfg
             /\ cfg' = out.cfg
    /\ last' = NoOp
    /\ UNCHANGED <<files, worktrees, branches, merged, ahead, upstreamCfg, remoteRefs, disk,
                   stash, cwd, sync, userSteps>>

\* a detached worktree added with git itself at the path the pattern resolves
\* to, as before names were stored: no name is stored for it
LegacyAdd ==
    /\ Idle
    /\ Len(worktrees) <= MaxLinked
    /\ \E name \in LegacyNames :
        \E wt_path \in {resolve_path_pattern(cfg, name, get_branch_name(cfg, name))} :
          /\ AddWorktreeOk(World, wt_path, name, FALSE, "HEAD", TRUE)
          /\ SetWorld(add_worktree(World, wt_path, name, FALSE, "HEAD", TRUE))
    /\ last' = NoOp
    /\ UNCHANGED <<cwd, cfg, files, sync, userSteps>>

LegacyCreate == CreateFrom(LegacyNames, {None}, {"none"}, MaxLinked)

LegacySpec ==
    Init /\ [][SetPattern \/ LegacyAdd \/ LegacyCreate]_vars

\* names whose branches hold refs/heads/ inside
ParseNames == {"x", "refs/heads/x"}

ParseCreate == CreateFrom(ParseNames, {None}, {"none"}, MaxLinked)

ParseDelete == DeleteNamed(ParseNames)

\* git.list_worktrees(): git prints the worktrees it holds, the last record
\* with or without a blank line after it, and the parser reads them
ListPorcelain ==
    /\ Idle
    /\ \E trailing \in BOOLEAN :
        \E stdout \in {IF trailing THEN Porcelain(worktrees)
                       ELSE SubSeq(Porcelain(worktrees), 1, Len(Porcelain(worktrees)) - 1)} :
          last' = [NoOp EXCEPT !.op = "list", !.stdout = stdout,
                               !.parsed = parse_worktree_list(stdout)]
    /\ UNCHANGED <<worktrees, branches, merged, ahead, upstreamCfg, remoteRefs, disk,
                   stash, cwd, cfg, files, sync, userSteps>>

ParseSpec ==
    Init /\ [][ParseCreate \/ ParseDelete \/ ListPorcelain]_vars

\* the refs given as base: none, a branch of an earlier worktree, HEAD
BaseRefs == {None, "feature/x", "HEAD"}

BaseNames == {"x", "y"}

BaseCreate == CreateFrom(BaseNames, BaseRefs, {"none"}, MaxLinked)

BaseDelete == DeleteNamed(BaseNames)

\* config.set("default_base", ...)
SetDefaultBase ==
    /\ Idle
    /\ \E value \in {"origin/main", "feature/x"} :
          \E out \in {Config_set(cfg, "default_base", value)} :
             /\ out.err = None
             /\ out.cfg # cfg
             /\ cfg' = out.cfg
    /\ last' = NoOp
    /\ UNCHANGED <<files, worktrees, branches, merged, ahead, upstreamCfg, remoteRefs, disk,
                   stash, cwd, sync, userSteps>>

BaseSpec ==
    Init /\ [][BaseCreate \/ BaseDelete \/ Commit \/ SetDefaultBase]_vars

\* create with git failing at the step after the worktree was added: the store
\* of a detached worktree's name, or the push/upstream wiring
FaultCreate == CreateFrom(BaseNames, {None}, CreateFaults, MaxLinked)

FaultDelete == DeleteNamed(BaseNames)

FaultSpec ==
    Init /\ [][FaultCreate \/ FaultDelete]_vars

\* creating, changing the path pattern in between, and cleaning
CollideSpec ==
    Init /\ [][SetPattern \/ LegacyCreate \/ CleanMerged]_vars

Next == CreateWorktree \/ DeleteWorktree \/ CleanMerged \/ Chdir \/ Edit \/ Commit

Spec == Init /\ [][Next]_vars

-----------------------------------------------------------------------------
\* Claims about create, find, delete and clean

Created == last.op = "create" /\ last.err = None

\* C1: after a successful create_worktree(name, ...), find_worktree_by_name(name)
\* returns the worktree at the returned path, and its derived name is name.
C1_FindAfterCreate ==
    Created =>
        /\ find_worktree_by_name(World, cfg, last.name).path = last.value
        /\ find_worktree_by_name(World, cfg, last.name).name = last.name

\* the outcome of calling create_worktree again with the name just created
SecondCreate(base, detached) ==
    create_worktree(World, cfg, last.name, base, detached, "none")

C3_FindAfterDelete ==
    (last.op = "delete" /\ last.force /\ last.value = "True") =>
        find_worktree_by_name(World, cfg, last.name) = NoWorktree

\* C4: a delete_worktree call with keep_branch=True deletes no branch, whatever
\* force is and however the call ends.
C4_KeepBranchKeeps ==
    [][(last'.op = "delete" /\ last'.keep_branch) =>
          /\ branches' = branches
          /\ LET wt == find_worktree_by_name(World, cfg, last'.name) IN
             (Truthy(wt.branch) /\ wt.branch \in branches) => wt.branch \in branches']_vars

\* a keep-branch delete removed a worktree and its branch is still there
C4_Witness ==
    /\ last.op = "delete" /\ last.keep_branch /\ last.value = "True"
    /\ get_branch_name(cfg, last.name) \in branches
    /\ ~worktree_exists(World, get_branch_name(cfg, last.name)).exists

\* C5: after a successful detached create_worktree(X), exactly one listed
\* worktree has the derived name X, and it has no branch.
C5_DetachedRoundTrip ==
    (Created /\ last.detached) =>
        LET wts == list_worktrees(World, cfg)
            hits == {i \in 1..Len(wts) : wts[i].name = last.name}
        IN Cardinality(hits) = 1 /\ \A i \in hits : wts[i].branch = None

\* C10: a dry run of clean_merged_worktrees changes nothing and returns the names
\* the forced run would call delete_worktree with in the same state; a second
\* dry run returns the same list.
C10_DryRunIsPreview ==
    [][(last'.op = "clean" /\ last'.dry_run) =>
          /\ World' = World
          /\ last'.names = clean_merged_worktrees(World, cfg, cwd, FALSE, TRUE, TRUE).attempted
          /\ last'.names = clean_merged_worktrees(World', cfg, cwd, TRUE, FALSE, FALSE).value]_vars

-----------------------------------------------------------------------------
\* Claims about sync

\* sync_worktree has returned its result for the current target
Returned == sync.pc = "report"

HasOp(op) == \E i \in 1..Len(sync.ops) : sync.ops[i] = op

\* C6: for a detached worktree sync_worktree returns success=false with error
\* "detached HEAD, skipping", for a branch without upstream success=false with
\* error "no upstream branch"; in both cases stashed=false, no git operation
\* was issued and the repository is as it was.
C6_DetectIsTerminal ==
    (Returned /\ (~Truthy(Target.branch)
                  \/ ~Truthy(get_upstream_branch(sync.before, Target.branch)))) =>
        /\ sync.result =
             [NewResult EXCEPT !.error = IF ~Truthy(Target.branch)
                                         THEN "detached HEAD, skipping"
                                         ELSE "no upstream branch"]
        /\ sync.ops = <<>>
        /\ World = sync.before

\* a dirty worktree without upstream was reported
C6_Witness ==
    /\ Returned /\ Truthy(Target.branch)
    /\ ~Truthy(get_upstream_branch(World, Target.branch))
    /\ has_uncommitted_changes(World, Target.path)
    /\ sync.result.error = "no upstream branch"

\* the run stashed, pulled (and rebased if asked) and then failed to pop
PopFailedAfterSuccess ==
    /\ Returned
    /\ HasOp(Op("stash_push", TRUE)) /\ HasOp(Op("pull", TRUE))
    /\ sync.rebase => HasOp(Op("rebase", TRUE))
    /\ sync.ops[Len(sync.ops)] = Op("stash_pop", FALSE)

\* C7: when the changes were stashed, the pull (and rebase) succeeded and the
\* stash pop fails, the result is success=false, error "stash conflict",
\* stashed=true, and the stash entry is still there: nothing drops it.
C7_StashConflict ==
    PopFailedAfterSuccess =>
        /\ sync.result.success = FALSE
        /\ sync.result.error = "stash conflict"
        /\ sync.result.stashed = TRUE
        /\ stash # <<>> /\ Head(stash) = Target.path
        /\ \A i \in 1..Len(sync.ops) :
              sync.ops[i].op \in {"stash_push", "pull", "rebase", "stash_pop"}

C7_Witness == PopFailedAfterSuccess /\ sync.rebase

\* C8: whenever the stash step succeeded, a stash pop was attempted by the time
\* sync_worktree returns or raises, whatever the pull and the rebase did.
C8_GuaranteedUnwind ==
    (sync.pc \in {"report", "raised"} /\ sync.targets # <<>>) =>
        \A i \in 1..Len(sync.ops) :
            sync.ops[i] = Op("stash_push", TRUE) =>
                \E j \in (i + 1)..Len(sync.ops) : sync.ops[j].op = "stash_pop"

\* a gateway error after the stash, and the pop was still attempted
C8_Witness ==
    /\ sync.pc = "raised" /\ sync.targets # <<>> /\ sync.exc
    /\ HasOp(Op("stash_push", TRUE))
    /\ sync.ops[Len(sync.ops)].op = "stash_pop"

\* C9: sync_worktrees syncs every resolved target and reports each exactly once,
\* in one of succeeded and failed, also when a gateway error hits one of them.
C9_EveryTargetReported ==
    (sync.pc \in {"done", "raised"} /\ sync.targets # <<>>) =>
        /\ sync.pc = "done"
        /\ sync.reported = [i \in 1..Len(sync.targets) |-> i]
        /\ Len(sync.succeeded) + Len(sync.failed) = Len(sync.targets)

\* sync_worktree is running or has just returned for the current target
InRun == sync.pc \in {"detect", "stash", "pull", "rebase", "restore", "report"}

\* C24: when a worktree has uncommitted changes and the stash push fails,
\* sync_worktree returns success=false, stashed=false, error "failed to stash
\* changes", and issues no pull, rebase or stash pop; so whenever a pull is
\* issued the worktree had no uncommitted changes or they were stashed first.
C24_StashFailureIsTerminal ==
    InRun =>
        /\ HasOp(Op("stash_push", FALSE)) =>
              /\ sync.ops = <<Op("stash_push", FALSE)>>
              /\ Returned
              /\ sync.result = [NewResult EXCEPT !.error = "failed to stash changes"]
              /\ World = sync.before
        /\ (\E i \in 1..Len(sync.ops) : sync.ops[i].op = "pull") =>
              \/ ~has_uncommitted_changes(sync.before, Target.path)
              \/ sync.ops[1] = Op("stash_push", TRUE)

\* a dirty worktree whose stash push failed was reported, still dirty
C24_Witness ==
    /\ Returned /\ sync.result.error = "failed to stash changes"
    /\ has_uncommitted_changes(World, Target.path)
    /\ sync.ops = <<Op("stash_push", FALSE)>>

\* the place of a git operation in the order of the steps
StepRank(op) ==
    CASE op = "stash_push" -> 2 [] op = "pull" -> 3 [] op = "rebase" -> 4
      [] op = "stash_pop" -> 5

\* C25: the steps of sync_worktree run in the order Detect, Stash, Pull,
\* Rebase, Restore; a rebase is issued only in rebase mode and after a pull
\* that succeeded; a failed pull gives success=false without a rebase, a failed
\* rebase gives success=false; the rebase is onto default_base, or origin/main
\* when that is unset.
C25_StepOrder ==
    InRun =>
        /\ \A i, j \in 1..Len(sync.ops) :
              i < j => StepRank(sync.ops[i].op) < StepRank(sync.ops[j].op)
        /\ \A j \in 1..Len(sync.ops) :
              sync.ops[j].op = "rebase" =>
                 /\ sync.rebase
                 /\ \E i \in 1..(j - 1) : sync.ops[i] = Op("pull", TRUE)
                 /\ sync.onto = IF ConfigGet(cfg, "default_base") \in {None, ""}
                                THEN "origin/main" ELSE ConfigGet(cfg, "default_base")
        /\ HasOp(Op("pull", FALSE)) =>
              /\ ~HasOp(Op("rebase", TRUE)) /\ ~HasOp(Op("rebase", FALSE))
              /\ Returned => ~sync.result.success
        /\ (HasOp(Op("rebase", FALSE)) /\ Returned) => ~sync.result.success

\* a run in rebase mode with default_base unset rebased onto origin/main after
\* its pull
C25_Witness ==
    /\ Returned /\ sync.rebase /\ ConfigGet(cfg, "default_base") = ""
    /\ HasOp(Op("pull", TRUE)) /\ HasOp(Op("rebase", TRUE))
    /\ sync.onto = "origin/main" /\ sync.result.success

\* C26: sync_worktrees(names) does not fail because some or all of the names
\* resolve to no worktree, and every name that resolves is synced and reported.
C26_UnknownNamesSkipped ==
    (sync.pc \in {"done", "raised"} /\ sync.given) =>
        /\ sync.pc = "done"
        /\ \A i \in 1..Len(sync.names) :
              LET wt == find_worktree_by_name(World, cfg, sync.names[i]) IN
              wt # NoWorktree =>
                 \E j \in 1..Len(sync.reported) : sync.targets[sync.reported[j]] = wt

Running == sync.pc # "idle" /\ sync'.pc # "idle"

\* the step is a git operation of sync_worktree
IssuesOp == Running /\ sync'.ops # sync.ops /\ sync'.ops # <<>>

\* C27: sync_worktrees is a sequential loop: every git operation belongs to
\* the target the loop is at, the loop moves to the next target only after
\* sync_worktree returned for this one, its stash restore included, and the
\* results are appended in the order of the targets.
C27_SequentialLoop ==
    [][Running =>
          /\ IssuesOp =>
                /\ sync'.idx = sync.idx /\ sync'.targets = sync.targets
                /\ sync'.ops = Append(sync.ops, sync'.ops[Len(sync'.ops)])
                /\ sync'.reported = sync.reported
                /\ sync.reported = [i \in 1..(sync.idx - 1) |-> i]
          /\ sync'.idx # sync.idx =>
                /\ sync.pc = "report" /\ sync'.pc = "detect"
                /\ sync'.idx = sync.idx + 1 /\ sync'.ops = <<>>
                /\ sync.result.stashed =>
                      sync.ops[Len(sync.ops)].op = "stash_pop"
          /\ sync'.reported # sync.reported =>
                /\ sync.pc = "report"
                /\ sync'.reported = Append(sync.reported, sync.idx)
                /\ IF sync.result.success
                   THEN /\ sync'.failed = sync.failed
                        /\ sync'.succeeded =
                             Append(sync.succeeded, [name |-> Target.name,
                                                     message |-> sync.result.message])
                   ELSE /\ sync'.succeeded = sync.succeeded
                        /\ sync'.failed =
                             Append(sync.failed, [name |-> Target.name,
                                                  error |-> sync.result.error,
                                                  stashed |-> sync.result.stashed])]_vars

\* the second of two different targets has pulled after the first, which had
\* stashed, was reported
C27_Witness ==
    /\ sync.pc \in {"rebase", "restore"} /\ sync.idx = 2
    /\ sync.targets[1] # sync.targets[2]
    /\ sync.reported = <<1>>
    /\ Len(sync.failed) = 1 /\ sync.failed[1].stashed
    /\ HasOp(Op("pull", TRUE))

-----------------------------------------------------------------------------
\* Claims about clean and delete, continued

InSeq(seq, x) == \E i \in 1..Len(seq) : seq[i] = x

\* the name the scenarios call foo
Foo == "x"

\* a listed worktree on the prefixed branch of Foo that is merged into
\* origin/main, main being the default branch
MergedFoo(wt) ==
    /\ wt.branch = "feature/" \o Foo
    /\ get_default_branch(World) = "main"
    /\ is_ancestor(World, wt.branch, "origin/main")

ForcedClean == last'.op = "clean" /\ last'.force /\ ~last'.dry_run

RemovedFoo(wt) ==
    /\ \A i \in 1..Len(worktrees') : worktrees'[i].path # wt.path
    /\ wt.branch \notin branches'
    /\ last'.err = None /\ InSeq(last'.names, Foo)

\* C11: clean_merged_worktrees(force=True) removes the worktree on feature/foo
\* merged into origin/main, deletes the branch and returns foo; read with the
\* caller outside that worktree, since the current worktree is never deleted.
C11_CleanRemovesMerged ==
    [][ForcedClean =>
          \A i \in 1..Len(worktrees) :
              LET wt == list_worktrees(World, cfg)[i] IN
              (MergedFoo(wt) /\ ~IsUnder(cwd, wt.path)) => RemovedFoo(wt)]_vars

\* the candidates of a forced clean that was confirmed or needed no confirmation
CleanRan ==
    /\ last'.op = "clean" /\ ~last'.dry_run /\ ToRemove(World, cfg) # <<>>
    /\ last'.force

\* C12: in the removal loop a failing delete_worktree is caught and never aborts
\* the batch: the call returns its list, every candidate was attempted, and the
\* list holds attempted names only, one for each deletion that returned True.
C12_LoopIsolatesFailures ==
    [][CleanRan =>
          /\ last'.err = None
          /\ last'.attempted = NamesOf(ToRemove(World, cfg))
          /\ \A i \in 1..Len(last'.names) : InSeq(last'.attempted, last'.names[i])
          /\ Len(last'.names) <= Len(worktrees) - Len(worktrees')]_vars

\* sub occurs in s
Contains(s, sub) ==
    \E i \in 1..(Len(s) + 1 - Len(sub)) : SubSeq(s, i, i + Len(sub) - 1) = sub

\* the worktree a delete_worktree call names, before the call
Named == find_worktree_by_name(World, cfg, last'.name)

NamedIsCurrent == get_current_worktree(World, cfg, cwd).path = Named.path

UnforcedDeleteOfDirty ==
    /\ last'.op = "delete" /\ ~last'.force
    /\ Named # NoWorktree /\ has_uncommitted_changes(World, Named.path)

Refused ==
    /\ last'.value # "True"
    /\ last'.err = "UncommittedChanges"
    /\ Contains(last'.text, get_status_short(World, Named.path))
    /\ World' = World

\* C13 as stated: delete_worktree without force on a worktree with uncommitted
\* changes does not return True, its error carries the short status, and the
\* worktrees, branches and metadata are unchanged.
C13_DirtyDeleteRefused == [][UnforcedDeleteOfDirty => Refused]_vars

\* C13 amended: so it is for a worktree that is not the current one; for the
\* current worktree the call fails earlier with CannotDeleteCurrent, whose
\* message carries no status, and changes nothing either.
C13_DirtyDeleteRefusedElsewhere ==
    [][UnforcedDeleteOfDirty =>
          /\ last'.value # "True" /\ World' = World
          /\ IF NamedIsCurrent
             THEN last'.err = "CannotDeleteCurrent" /\ last'.text = ""
             ELSE Refused]_vars

\* an unforced delete of a dirty worktree was refused and the worktree is still
\* listed with its changes
C13_Witness ==
    /\ last.op = "delete" /\ ~last.force /\ last.err = "UncommittedChanges"
    /\ has_uncommitted_changes(World, find_worktree_by_name(World, cfg, last.name).path)
    /\ Contains(last.text, " M README.md")

\* the named worktree is gone after the call
NamedRemoved ==
    /\ Named # NoWorktree
    /\ \A i \in 1..Len(worktrees') : worktrees'[i].path # Named.path

\* C14: delete_worktree without force removes a worktree whose branch has
\* commits that are not on its remote only after the user answered the
\* confirmation prompt with yes.
C14_UnpushedNeedsConfirmation ==
    [][(/\ last'.op = "delete" /\ ~last'.force
        /\ Truthy(Named.branch) /\ Named.branch \in ahead
        /\ NamedRemoved)
          => last'.prompt = "yes"]_vars

\* an unforced delete reached the unpushed-commits check and found some
FoundUnpushed ==
    /\ last'.op = "delete" /\ ~last'.force
    /\ Named # NoWorktree /\ ~NamedIsCurrent
    /\ ~StatusRaises(World, Named.path) /\ ~has_uncommitted_changes(World, Named.path)
    /\ UnpushedCommits(World, Named.branch)

\* C15: when an unforced delete_worktree finds unpushed commits and the user
\* does not confirm, it returns False without an error and changes nothing.
C15_DeclineIsNoOp ==
    [][(FoundUnpushed /\ last'.prompt # "yes") =>
          /\ last'.prompt = "no"
          /\ last'.value = "False" /\ last'.err = None
          /\ World' = World]_vars

\* a declined delete: the worktree is still listed and its branch still ahead
C15_Witness ==
    /\ last.op = "delete" /\ last.prompt = "no" /\ last.value = "False"
    /\ LET wt == find_worktree_by_name(World, cfg, last.name) IN
       wt # NoWorktree /\ UnpushedCommits(World, wt.branch)

\* C16: delete_worktree fails with CannotDeleteCurrent whenever the process
\* stands in the named worktree's directory, whatever force and keep_branch
\* are, and with NotFound when the name resolves to no worktree; in both cases
\* worktrees, branches and metadata are unchanged.
C16_CurrentAndUnknownRefused ==
    [][last'.op = "delete" =>
          /\ (Named # NoWorktree /\ cwd = Named.path) =>
                (last'.err = "CannotDeleteCurrent" /\ World' = World)
          /\ Named = NoWorktree =>
                (last'.err = "NotFound" /\ World' = World)]_vars

\* the listed worktrees a name can match, by each of the three tests
ByDerivedName(n) == {i \in 1..Len(worktrees) : list_worktrees(World, cfg)[i].name = n}
ByRawBranch(n) == {i \in 1..Len(worktrees) : worktrees[i].branch = n}
ByPrefixedBranch(n) ==
    {i \in 1..Len(worktrees) : worktrees[i].branch = get_branch_name(cfg, n)}

\* the lookup answers with the first listed worktree of the first test that
\* matches any
ResolvesInOrder(n) ==
    LET found == find_worktree_by_name(World, cfg, n)
        wts == list_worktrees(World, cfg)
        least(hits) == CHOOSE i \in hits : \A j \in hits : i <= j
    IN IF ByDerivedName(n) # {} THEN found = wts[least(ByDerivedName(n))]
       ELSE IF ByRawBranch(n) # {} THEN found = wts[least(ByRawBranch(n))]
       ELSE IF ByPrefixedBranch(n) # {} THEN found = wts[least(ByPrefixedBranch(n))]
       ELSE found = NoWorktree

\* a short name whose own worktree, on the prefixed branch, is listed
ShortNameListed(n) == get_branch_name(cfg, n) # n /\ ByPrefixedBranch(n) # {}

\* C17: find_worktree_by_name resolves by derived name, then raw branch, then
\* prefixed branch, else null, first match winning; so a short name whose own
\* worktree is listed resolves to it and not to a worktree on a branch that
\* merely equals the name literally.
C17_ResolutionOrder ==
    \A n \in Names :
        /\ ResolvesInOrder(n)
        /\ ShortNameListed(n) =>
              find_worktree_by_name(World, cfg, n).branch = get_branch_name(cfg, n)

Override == ConfigGet(cfg, "default_worktree")

OnDefaultBranch ==
    {i \in 1..Len(worktrees) : worktrees[i].branch = get_default_branch(World)}

\* C18: get_default_worktree returns the worktree named by the default_worktree
\* override when one is set, else the worktree on the auto-detected default
\* branch, else the first listed worktree; so it returns a worktree whenever
\* any worktree is listed.
C18_DefaultWorktree ==
    LET found == get_default_worktree(World, cfg)
        wts == list_worktrees(World, cfg)
    IN /\ Truthy(Override) => found = find_worktree_by_name(World, cfg, Override)
       /\ (~Truthy(Override) /\ OnDefaultBranch # {}) =>
             found.branch = get_default_branch(World)
       /\ (~Truthy(Override) /\ OnDefaultBranch = {}) => found = wts[1]
       /\ Len(wts) > 0 => found # NoWorktree

\* the branch a create_worktree call derives from its name
Wanted == get_branch_name(cfg, last'.name)

BranchCreated == Wanted \notin branches /\ Wanted \in branches'

\* the create follows a delete of the same name that kept the branch and
\* returned True, and the branch is there
RecreateAfterKeep ==
    /\ last.op = "delete" /\ last.keep_branch /\ last.value = "True"
    /\ last'.op = "create" /\ last'.name = last.name
    /\ branch_exists(World, Wanted)

Reused ==
    /\ last'.err = None
    /\ branches' = branches
    /\ find_worktree_by_name(World', cfg, last'.name).branch = Wanted

\* C19 as stated: a successful create_worktree creates a new branch exactly
\* when get_branch_name(name) is not a local branch; and a create that follows
\* delete(keep_branch=True) of the same name succeeds, creates no branch, and
\* find_worktree_by_name(name) then returns a worktree on the surviving branch.
C19_DerivedBranchFlag ==
    [][/\ (last'.op = "create" /\ last'.err = None) =>
              (BranchCreated <=> ~branch_exists(World, Wanted))
       /\ RecreateAfterKeep => Reused]_vars

\* C19 amended: so it is for a create that is not detached; a detached create
\* never creates a branch and binds the worktree to none.
C19_DerivedBranchFlagUnlessDetached ==
    [][/\ (last'.op = "create" /\ last'.err = None) =>
              (BranchCreated <=> (~last'.detached /\ ~branch_exists(World, Wanted)))
       /\ (RecreateAfterKeep /\ ~last'.detached) => Reused
       /\ (last'.op = "create" /\ last'.err = None /\ last'.detached) =>
              worktrees'[Len(worktrees')].branch = None]_vars

\* a worktree was created again on a branch that survived with its commit
C19_Witness ==
    /\ last.op = "create" /\ last.err = None /\ ~last.detached
    /\ get_branch_name(cfg, last.name) \in ahead
    /\ find_worktree_by_name(World, cfg, last.name).branch = get_branch_name(cfg, last.name)

Prefix == ConfigGet(cfg, "prefix")

\* C20: with a non-empty prefix P, get_branch_name(n) is P/n and
\* extract_worktree_name(P/n) is n, so extracting the name of the branch of n
\* gives n back; with the empty prefix both functions return their argument.
C20_NameRoundTrip ==
    /\ (last.op = "get_branch_name" /\ Prefix # "") =>
          last.value = Prefix \o "/" \o last.name
    /\ (last.op = "extract_worktree_name" /\ Prefix # "") =>
          \A n \in NameInputs :
              last.name = Prefix \o "/" \o n => last.value = n
    /\ (last.op = "extract_worktree_name" /\ Prefix # "") =>
          \A n \in NameInputs :
              last.name = get_branch_name(cfg, n) => last.value = n
    /\ (last.op \in {"get_branch_name", "extract_worktree_name"} /\ Prefix = "") =>
          last.value = last.name

\* with prefix feature, the name of branch feature/foo was extracted
C20_Witness ==
    /\ Prefix = "feature"
    /\ last.op = "extract_worktree_name" /\ last.name = "feature/foo"
    /\ last.value = "foo"

\* C21: Config.set fails with UnknownKey for every key outside the schema
\* prefix, path_pattern, default_base, default_worktree, and a failed set
\* leaves every configuration value, in memory and on file, unchanged.
C21_UnknownKeyRejected ==
    [][last'.op = "set" =>
          /\ last'.name \notin {"prefix", "path_pattern", "default_base", "default_worktree"}
                => last'.err = "UnknownKey"
          /\ last'.err # None => (get_all(cfg') = get_all(cfg) /\ files' = files)]_vars

\* a set of the key color was refused while the configuration held a value
\* that an earlier set had stored
C21_Witness ==
    /\ last.op = "set" /\ last.name = "color" /\ last.err = "UnknownKey"
    /\ ConfigGet(cfg, "prefix") = "custom"

Schema == {"prefix", "path_pattern", "default_base", "default_worktree"}

\* C22: after any sequence of load, set and save, also when a loaded file
\* holds other keys, the keys a Config holds and get_all returns are exactly
\* the schema keys.
C22_SchemaClosed == DOMAIN get_all(cfg) = Schema

Saved == last.op \in {"save_local", "save_global"}

\* C23: when a Config is saved and a new Config is constructed for the same
\* files, every schema key that held a string reads back as that string; save
\* wrote exactly the schema keys whose value is not None, and a schema key that
\* was not written reads back as its default.
C23_SaveLoadRoundTrip ==
    [][(Saved /\ last'.op = "load") =>
          /\ last'.err = None
          /\ \A k \in Schema :
                /\ cfg[k] # None => cfg'[k] = cfg[k]
                /\ cfg[k] = None => cfg'[k] = DEFAULT_CONFIG[k]
          /\ LET lines == IF last.op = "save_local" THEN files.local ELSE files.global
             IN \A k \in DOMAIN cfg :
                   (\E i \in 1..Len(lines) : lines[i] = write_toml_line(k, cfg[k]))
                      <=> (k \in Schema /\ cfg[k] # None)]_vars

-----------------------------------------------------------------------------
\* Claims about the candidates of clean and the order of delete

\* the branches origin held when the repository was cloned
ClonedRefs == {"main", "feature/x"}

\* an upstream is configured for the branch and the remote branch it names,
\* which origin once held, is gone
Orphaned(b) ==
    /\ b \in DOMAIN upstreamCfg
    /\ upstreamCfg[b] \in ClonedRefs
    /\ upstreamCfg[b] \notin remoteRefs

MergedIntoDefault(b) == is_ancestor(World, b, "origin/" \o get_default_branch(World))

IsCandidate(wt) ==
    /\ Truthy(wt.branch)
    /\ wt.branch # get_default_branch(World)
    /\ wt.name # wt.branch
    /\ (MergedIntoDefault(wt.branch) \/ Orphaned(wt.branch))

Candidates == NamesOf(SelectSeq(list_worktrees(World, cfg), IsCandidate))

\* C28: the list a dry run of clean returns holds exactly, in listing order,
\* the names of the worktrees with a bound branch other than the default
\* branch, whose derived name differs from the branch, and that are merged into
\* origin/<default> or orphaned (an upstream is configured and its remote branch
\* is gone).
C28_CleanCandidates ==
    (last.op = "clean" /\ last.dry_run) => last.names = Candidates

\* C29: clean without dry_run and without force, when there are candidates,
\* asks the user once for the whole batch and never once per worktree; when the
\* user declines, it returns the empty list and the repository is as before.
C29_OnePromptForBatch ==
    [][(last'.op = "clean" /\ ~last'.dry_run /\ ~last'.force
          /\ ToRemove(World, cfg) # <<>>) =>
          /\ last'.asked = <<Proceed>>
          /\ last'.prompt = "no" =>
                /\ last'.names = <<>>
                /\ last'.attempted = <<>>
                /\ World' = World]_vars

\* the user declined a batch of two candidates, and both are still there
C29_Witness ==
    /\ last.op = "clean" /\ ~last.dry_run /\ ~last.force
    /\ last.prompt = "no" /\ last.asked = <<Proceed>>
    /\ last.names = <<>>
    /\ Len(ToRemove(World, cfg)) = 2

\* the worktree delete_worktree resolves the name of the step to
Doomed == find_worktree_by_name(World, cfg, last'.name)

DeleteReturnedTrue == last'.op = "delete" /\ last'.value = "True"

\* git branch -d accepts the branch once no worktree has it checked out
BranchDeletable ==
    \/ last'.force
    \/ Doomed.branch \in merged
    \/ get_upstream_branch(World, Doomed.branch) # None /\ Doomed.branch \notin ahead

BranchWanted == Truthy(Doomed.branch) /\ ~last'.keep_branch

\* C30: a delete_worktree that returns True has removed the worktree with the
\* force flag it was given, then deleted the branch unless keep_branch was set
\* or the worktree is detached, then pruned: the worktree and its directory are
\* gone, a branch git accepts to delete once the worktree is removed is gone,
\* a branch git refuses to delete stays while the call still returns True, the
\* branches are untouched under keep_branch or for a detached worktree, and no
\* unlocked worktree without a directory is left registered.
C30_DeleteOrder ==
    [][DeleteReturnedTrue =>
          /\ Doomed.path \notin disk'
          /\ \A i \in 1..Len(worktrees') : worktrees'[i].path # Doomed.path
          /\ has_uncommitted_changes(World, Doomed.path) => last'.force
          /\ (BranchWanted /\ BranchDeletable) => Doomed.branch \notin branches'
          /\ (BranchWanted /\ ~BranchDeletable) => Doomed.branch \in branches'
          /\ ~BranchWanted => branches' = branches
          /\ \A i \in 2..Len(worktrees') :
                worktrees'[i].locked \/ worktrees'[i].path \in disk']_vars

\* a delete without force and without keep_branch returned True although git
\* refused to delete the unmerged branch: the worktree is gone, the branch stays
C30_Witness ==
    /\ last.op = "delete" /\ last.value = "True" /\ ~last.force /\ ~last.keep_branch
    /\ get_branch_name(cfg, last.name) \in branches
    /\ get_branch_name(cfg, last.name) \notin merged
    /\ ~worktree_exists(World, get_branch_name(cfg, last.name)).exists
    /\ find_worktree_by_name(World, cfg, last.name) = NoWorktree

-----------------------------------------------------------------------------
\* Claims about names, the parser and create, continued

EndsWith(s, p) == Len(s) >= Len(p) /\ SubSeq(s, Len(s) - Len(p) + 1, Len(s)) = p

\* the name for which the configured path pattern resolves to wt_path, or None:
\* the pattern with {repo} filled in is cut at {name}, and the name is what
\* wt_path holds between the two parts
NameFromPattern(c, wt_path) ==
    LET pattern == Replace(ConfigGet(c, "path_pattern"), "{repo}", RepoName)
        at == IndexOf(pattern, "{name}")
        before == SubSeq(pattern, 1, at - 1)
        after == SubSeq(pattern, at + 6, Len(pattern))
    IN IF at = 0 THEN None
       ELSE IF StartsWith(wt_path, before) /\ EndsWith(wt_path, after)
               /\ Len(wt_path) > Len(before) + Len(after)
            THEN SubSeq(wt_path, Len(before) + 1, Len(wt_path) - Len(after))
            ELSE None

Synthetic(r) == "(detached-" \o SubSeq(r.commit, 1, 7) \o ")"

\* C31: every listed worktree has a non-empty name, and the name of a detached
\* worktree is the stored name when one is stored, else the name the configured
\* path pattern gives for its path, else (detached-<first 7 of the commit>).
C31_DetachedNamePriority ==
    \A i \in 1..Len(worktrees) :
        LET r == worktrees[i]
            name == list_worktrees(World, cfg)[i].name
        IN /\ name # "" /\ name # None
           /\ ~Truthy(r.branch) =>
                 name = IF Truthy(r.stored) THEN r.stored
                        ELSE IF NameFromPattern(cfg, r.path) # None
                             THEN NameFromPattern(cfg, r.path)
                        ELSE Synthetic(r)

\* the two patterns a name is inferred for
KnownPatterns == {"../{repo}-{name}", "../{name}"}

\* a path directly beside the repository directory
Flat(p) == IndexOf(SubSeq(p, 4, Len(p)), "/") = 0

\* C31 restricted: every listed worktree has a non-empty name; a stored name is
\* the name of a detached worktree; without a stored name, when the configured
\* pattern is ../{repo}-{name} or ../{name} and the worktree lies directly
\* beside the repository, the name is the one the pattern gives for the path,
\* or the synthetic one when the pattern gives none; with any other pattern it
\* is the synthetic one.
C31_DetachedNamePriorityKnownPatterns ==
    \A i \in 1..Len(worktrees) :
        LET r == worktrees[i]
            name == list_worktrees(World, cfg)[i].name
            known == ConfigGet(cfg, "path_pattern") \in KnownPatterns
        IN /\ name # "" /\ name # None
           /\ ~Truthy(r.branch) =>
                 /\ Truthy(r.stored) => name = r.stored
                 /\ (~Truthy(r.stored) /\ known /\ Flat(r.path)) =>
                       name = IF NameFromPattern(cfg, r.path) # None
                              THEN NameFromPattern(cfg, r.path)
                              ELSE Synthetic(r)
                 /\ (~Truthy(r.stored) /\ ~known) => name = Synthetic(r)

\* two detached worktrees: one whose stored name wins over a different name the
\* pattern gives for its path, one without a stored name listed under the name
\* the pattern gives
C31_Witness ==
    \E i, j \in 2..Len(worktrees) :
        /\ ~Truthy(worktrees[i].branch) /\ Truthy(worktrees[i].stored)
        /\ NameFromPattern(cfg, worktrees[i].path) \notin {None, worktrees[i].stored}
        /\ list_worktrees(World, cfg)[i].name = worktrees[i].stored
        /\ ~Truthy(worktrees[j].branch) /\ ~Truthy(worktrees[j].stored)
        /\ list_worktrees(World, cfg)[j].name = NameFromPattern(cfg, worktrees[j].path)

\* C32: the parser returns one entry per worktree git printed, in order, with
\* or without a blank line after the last record; an entry's branch is the
\* branch of the record (refs/heads/ cut from the front), and the entry of a
\* record without a branch line has a null branch, never an empty string.
C32_ParserFaithful ==
    last.op = "list" =>
        /\ Len(last.parsed) = Len(worktrees)
        /\ \A i \in 1..Len(worktrees) :
              /\ DictGet(last.parsed[i], "path") = worktrees[i].path
              /\ DictGet(last.parsed[i], "commit") = worktrees[i].commit
              /\ DictGet(last.parsed[i], "branch") # ""
              /\ DictGet(last.parsed[i], "branch") =
                    (IF Truthy(worktrees[i].branch) THEN worktrees[i].branch ELSE None)

\* the worktree a successful create appended
NewWorktree == worktrees'[Len(worktrees')]

\* the ref the claim has the new worktree created from
ClaimedBase ==
    IF last'.base # None THEN last'.base
    ELSE IF last'.detached THEN "HEAD"
    ELSE ConfigGet(cfg, "default_base")

CreateSucceeded == last'.op = "create" /\ last'.err = None

\* C33 as stated: the worktree of a successful create is at the commit of the
\* explicit base, else of HEAD when detached, else of default_base.
C33_BaseResolution ==
    [][CreateSucceeded => NewWorktree.commit = CommitOf(World, ClaimedBase)]_vars

\* C33 restricted: that holds when the worktree is detached or its branch is
\* created by the call; a worktree for a branch that exists already is at that
\* branch's commit, whatever base and default_base are.
C33_BaseResolutionForNewBranch ==
    [][CreateSucceeded =>
          LET branch == get_branch_name(cfg, last'.name) IN
          IF last'.detached \/ branch \notin branches
          THEN NewWorktree.commit = CommitOf(World, ClaimedBase)
          ELSE NewWorktree.commit = CommitOf(World, branch)]_vars

\* a worktree created from an explicit base whose commit is neither HEAD's nor
\* default_base's, beside the worktree that base belongs to
C33_Witness ==
    /\ last.op = "create" /\ last.err = None /\ last.base = "feature/x"
    /\ worktrees[Len(worktrees)].path = last.value
    /\ worktrees[Len(worktrees)].commit = UserCommit("feature/x")
    /\ worktrees[Len(worktrees)].branch # "feature/x"
    /\ ConfigGet(cfg, "default_base") = "origin/main"

\* C34: when the worktree was added and the push/upstream wiring fails,
\* create_worktree returns the worktree's path, and the worktree, its directory
\* and its branch are in place.
C34_WiringFailureNotFatal ==
    [][(last'.op = "create" /\ last'.fault = "wire"
          /\ Len(worktrees') = Len(worktrees) + 1) =>
          /\ last'.err = None
          /\ last'.value = NewWorktree.path
          /\ NewWorktree.path \in disk'
          /\ NewWorktree.branch = get_branch_name(cfg, last'.name)
          /\ NewWorktree.branch \in branches']_vars

\* a create whose wiring failed returned the path; the branch exists and is
\* not configured to push to origin/<branch>
C34_Witness ==
    /\ last.op = "create" /\ last.fault = "wire" /\ last.err = None
    /\ last.value \in disk
    /\ get_branch_name(cfg, last.name) \in branches
    /\ \/ get_branch_name(cfg, last.name) \notin DOMAIN upstreamCfg
       \/ upstreamCfg[get_branch_name(cfg, last.name)] # get_branch_name(cfg, last.name)

\* the path the pattern resolves to for the name of the create step
TargetPath == resolve_path_pattern(cfg, last'.name, get_branch_name(cfg, last'.name))

C38_CreateAllOrNothing ==
    [][(last'.op = "create" /\ last'.err # None) =>
          /\ worktrees' = worktrees
          /\ branches' = branches]_vars

-----------------------------------------------------------------------------
\* Claims about what clean removes, unique names and the results of sync

\* the listed worktrees that are gone after the step
RemovedByStep ==
    {i \in 1..Len(worktrees) :
        \A j \in 1..Len(worktrees') : worktrees'[j].path # worktrees[i].path}

\* C36: a clean that is not a dry run removes only worktrees of its candidate
\* set: never a worktree on the default branch, a detached worktree, or a
\* worktree whose branch does not carry the prefix.
C36_CleanRemovesOnlyCandidates ==
    [][(last'.op = "clean" /\ ~last'.dry_run) =>
          \A i \in RemovedByStep :
             LET wt == list_worktrees(World, cfg)[i] IN
             /\ CleanReason(World, cfg, wt) # None
             /\ Truthy(wt.branch)
             /\ wt.branch # get_default_branch(World)
             /\ wt.name # wt.branch]_vars

\* C37: no two listed worktrees have the same derived name.
C37_DerivedNamesUnique ==
    \A i, j \in 1..Len(worktrees) :
        i # j => list_worktrees(World, cfg)[i].name # list_worktrees(World, cfg)[j].name

\* the entry the loop of sync_worktrees appended to a list in this step
Appended(before, after) == Len(after) = Len(before) + 1

\* C39: every result sync_worktree returns has success true exactly when error
\* is null; so every entry sync_worktrees puts in the failed list carries a
\* non-null error string and every entry of the succeeded list comes from a run
\* without error.
C39_SuccessIffNoError ==
    [][sync.pc = "report" =>
          /\ sync.result.success <=> sync.result.error = None
          /\ Appended(sync.failed, sync'.failed) =>
                /\ sync'.failed[Len(sync'.failed)].error = sync.result.error
                /\ sync'.failed[Len(sync'.failed)].error # None
          /\ Appended(sync.succeeded, sync'.succeeded) =>
                /\ sync.result.success
                /\ sync.result.error = None]_vars

\* sync_worktrees returned one worktree synced and one whose stash did not pop
C39_Witness ==
    /\ sync.pc = "done"
    /\ Len(sync.succeeded) = 1
    /\ Len(sync.failed) = 1
    /\ sync.failed[1].error = "stash conflict"
    /\ sync.failed[1].stashed

\* the positions of the stash pops among the git operations of this run
Pops == {i \in 1..Len(sync.ops) : sync.ops[i].op = "stash_pop"}

\* the run of sync_worktree ended in the Detect step
EndsInDetect ==
    \/ ~Truthy(Target.branch)
    \/ ~Truthy(get_upstream_branch(sync.before, Target.branch))

\* the entries the stash held when this run began are all still there, under
\* whatever the run pushed
EarlierEntriesKept ==
    /\ Len(stash) >= Len(sync.before.stash)
    /\ SubSeq(stash, Len(stash) - Len(sync.before.stash) + 1, Len(stash))
         = sync.before.stash

\* C40: sync_worktree attempts a stash pop at most once per run and only in a
\* run whose own stash push succeeded (stashed=true); a run that found no
\* uncommitted changes, or ended in the Detect step or in a stash failure,
\* issues no stash pop and leaves the stash as it found it; no run removes an
\* entry that was in the stash before it began.
C40_PopsOnlyOwnStash ==
    InRun =>
        /\ Cardinality(Pops) <= 1
        /\ \A i \in Pops :
              /\ sync.result.stashed
              /\ \E j \in 1..(i - 1) : sync.ops[j] = Op("stash_push", TRUE)
        /\ (\/ EndsInDetect
            \/ ~has_uncommitted_changes(sync.before, Target.path)
            \/ HasOp(Op("stash_push", FALSE))) =>
              /\ Pops = {}
              /\ ~sync.result.stashed
              /\ stash = sync.before.stash
        /\ EarlierEntriesKept

\* a worktree without uncommitted changes was pulled and the run returned; the
\* entry the user had stashed earlier is the whole stash
C40_Witness ==
    /\ Returned
    /\ ~has_uncommitted_changes(sync.before, Target.path)
    /\ HasOp(Op("pull", TRUE))
    /\ sync.result.success
    /\ stash \in EarlierStashes

====
